---- MODULE Spec2Model ----
(***************************************************************************)
(* ContextMesh: context / template / orchestration engine.                 *)
(*                                                                         *)
(* Encoding of Python data.  Strings are TLA+ strings, processed character *)
(* by character as the Python code does (split, strip, startswith, the     *)
(* template regular expression).  Any other value is a record [t, s, m]:   *)
(*   t  the Python type ("int", "str", "bool", "none", "map"),             *)
(*   s  the text str() gives for a scalar,                                 *)
(*   m  the key -> value function of a dict (<<>> for a scalar).           *)
(* The outcome of a call is a record [exc, msg, val, data]: the exception  *)
(* class raised ("none" when the call returns), str(exception), the value  *)
(* returned and the receiver's data after the call.                        *)
(***************************************************************************)
EXTENDS Integers, Sequences, FiniteSets, TLC

\* ------------------------------------------------------------------------
\* Python values
\* ------------------------------------------------------------------------
Sc(t, s) == [t |-> t, s |-> s, m |-> <<>>]
Mp(f) == [t |-> "map", s |-> "", m |-> f]
IsDict(v) == v.t = "map"
EmptyDict == <<>>
None == Sc("none", "None")
PyBool(b) == IF b THEN Sc("bool", "True") ELSE Sc("bool", "False")
PyStr(s) == Sc("str", s)
PyInt(s) == Sc("int", s)

\* Outcome of a call: the exception raised ("none" when it returns), the
\* returned value and the receiver's data after the call.
Ret(v, d) == [exc |-> "none", msg |-> "", val |-> v, data |-> d]
Raise(e, msg, d) == [exc |-> e, msg |-> msg, val |-> None, data |-> d]

\* ------------------------------------------------------------------------
\* Python str methods
\* ------------------------------------------------------------------------
\* s[i-1:j] in Python terms: positions i..j, 1-based, clipped to the string.
Slice(s, i, j) ==
    LET lo == IF i < 1 THEN 1 ELSE i
        hi == IF j > Len(s) THEN Len(s) ELSE j
    IN  IF lo > hi THEN "" ELSE SubSeq(s, lo, hi)

CharAt(s, i) == Slice(s, i, i)

RECURSIVE Find(_, _, _)
\* s.find(sub, i), 1-based; 0 when sub does not occur at or after i.
Find(s, sub, i) ==
    IF i + Len(sub) - 1 > Len(s) THEN 0
    ELSE IF Slice(s, i, i + Len(sub) - 1) = sub THEN i
    ELSE Find(s, sub, i + 1)

Contains(s, sub) == Find(s, sub, 1) # 0
StartsWith(s, prefix) ==
    Len(s) >= Len(prefix) /\ Slice(s, 1, Len(prefix)) = prefix

RECURSIVE Split(_)
\* s.split(".")
Split(s) ==
    LET at(i) == IF i = 0 THEN <<s>>
                 ELSE <<Slice(s, 1, i - 1)>> \o Split(Slice(s, i + 1, Len(s)))
    IN  at(Find(s, ".", 1))

\* s.split(".", 1)
SplitOnce(s) ==
    LET at(i) == IF i = 0 THEN <<s>>
                 ELSE <<Slice(s, 1, i - 1), Slice(s, i + 1, Len(s))>>
    IN  at(Find(s, ".", 1))

RECURSIVE LStrip(_)
LStrip(s) == IF Len(s) > 0 /\ CharAt(s, 1) = " " THEN LStrip(Tail(s)) ELSE s
RECURSIVE RStrip(_)
RStrip(s) ==
    IF Len(s) > 0 /\ CharAt(s, Len(s)) = " "
    THEN RStrip(Slice(s, 1, Len(s) - 1)) ELSE s
\* s.strip()
Strip(s) == LStrip(RStrip(s))

\* ------------------------------------------------------------------------
\* core/context.py
\* ------------------------------------------------------------------------
NamespaceNames == {"db", "state", "input", "logic"}

\* The loop of ContextNamespace.get without the isinstance(current, dict)
\* test: looking a key up in a scalar raises TypeError.
RECURSIVE NsWalkNoDictTest(_, _)
NsWalkNoDictTest(current, parts) ==
    IF parts = <<>> THEN Ret(current, current)
    ELSE IF ~IsDict(current) THEN Raise("TypeError", "", current)
         ELSE IF Head(parts) \in DOMAIN current.m
              THEN NsWalkNoDictTest(current.m[Head(parts)], Tail(parts))
              ELSE Raise("ContextPathError", "", current)

RECURSIVE NsWalk(_, _)
\* ContextNamespace.get, the loop over parts starting at `current`.
NsWalk(current, parts) ==
    IF parts = <<>> THEN Ret(current, current)
    ELSE IF IsDict(current) /\ Head(parts) \in DOMAIN current.m
         THEN NsWalk(current.m[Head(parts)], Tail(parts))
         ELSE Raise("ContextPathError", "", current)

\* ContextNamespace.get(path) of namespace `name` with dict `data`.
NsGet(name, data, path) ==
    LET found(r) ==
            IF r.exc = "none" THEN Ret(r.val, data)
            ELSE Raise(r.exc,
                       "Path '" \o name \o "." \o path
                           \o "' not found in context", data)
    IN  found(NsWalk(Mp(data), Split(path)))

RECURSIVE NsSetIn(_, _, _)
\* ContextNamespace.set, the loop over parts[:-1] and the final item
\* assignment, on the object `current`.  `part not in current`,
\* `current[part] = {}`, `current[part]` and `current[parts[-1]] = value`
\* raise TypeError when current is a scalar.  Returns [exc, node].
NsSetIn(current, parts, value) ==
    IF ~IsDict(current) THEN [exc |-> "TypeError", node |-> current]
    ELSE IF Len(parts) = 1
         THEN [exc |-> "none",
               node |-> Mp((Head(parts) :> value) @@ current.m)]
         ELSE LET part == Head(parts)
                  child == IF part \in DOMAIN current.m
                           THEN current.m[part] ELSE Mp(EmptyDict)
                  stored(r) ==
                      IF r.exc = "none"
                      THEN [exc |-> "none",
                            node |-> Mp((part :> r.node) @@ current.m)]
                      ELSE [exc |-> r.exc, node |-> current]
              IN  stored(NsSetIn(child, Tail(parts), value))

\* ContextNamespace.set(path, value) on the namespace dict `data`.
NsSet(data, path, value) ==
    LET stored(r) == IF r.exc = "none" THEN Ret(None, r.node.m)
                     ELSE Raise(r.exc, "", data)
    IN  stored(NsSetIn(Mp(data), Split(path), value))

RECURSIVE DeepMerge(_, _)
\* ContextNamespace._deep_merge(target, source), on dict functions.
DeepMerge(target, source) ==
    [key \in (DOMAIN target) \cup (DOMAIN source) |->
        IF key \notin DOMAIN source THEN target[key]
        ELSE IF key \in DOMAIN target /\ IsDict(target[key])
                /\ IsDict(source[key])
             THEN Mp(DeepMerge(target[key].m, source[key].m))
             ELSE source[key]]

\* A merge that replaces each top-level key of the namespace.
NsMergeReplacing(data, source) == source @@ data

\* ContextNamespace.merge(data).
NsMerge(data, source) == DeepMerge(data, source)

\* RuntimeContext(): the four namespaces as [name -> dict].
EmptyContext == [n \in NamespaceNames |-> EmptyDict]

\* RuntimeContext.get(path): split(".", 1), namespace test, delegate.
RtGet(c, path) ==
    LET got(r) == IF r.exc = "none" THEN Ret(r.val, c)
                  ELSE Raise(r.exc, r.msg, c)
        of(parts) ==
            IF Len(parts) < 2
            THEN Raise("ContextPathError",
                       "Invalid path format: '" \o path \o "'", c)
            ELSE IF parts[1] \notin NamespaceNames
                 THEN Raise("ContextPathError",
                            "Unknown namespace: '" \o parts[1] \o "'", c)
                 ELSE got(NsGet(parts[1], c[parts[1]], parts[2]))
    IN  of(SplitOnce(path))

\* RuntimeContext.set(path, value).
RtSet(c, path, value) ==
    LET stored(r, namespace) ==
            IF r.exc = "none"
            THEN Ret(None, [c EXCEPT ![namespace] = r.data])
            ELSE Raise(r.exc, r.msg, c)
        of(parts) ==
            IF Len(parts) < 2
            THEN Raise("ContextPathError",
                       "Invalid path format: '" \o path \o "'", c)
            ELSE IF parts[1] \notin NamespaceNames
                 THEN Raise("ContextPathError",
                            "Unknown namespace: '" \o parts[1] \o "'", c)
                 ELSE stored(NsSet(c[parts[1]], parts[2], value), parts[1])
    IN  of(SplitOnce(path))

\* RuntimeContext.merge(data): keys that are not namespaces, and values
\* that are not dicts, are ignored.
RtMerge(c, data) ==
    [n \in NamespaceNames |->
        IF n \in DOMAIN data /\ IsDict(data[n])
        THEN NsMerge(c[n], data[n].m) ELSE c[n]]

\* update_from_response that merges the body into what state holds.
UpdateFromResponseMerged(c, body) ==
    [c EXCEPT !["state"] = NsMerge(c["state"], "last_response" :> body)]

\* RuntimeContext.update_from_response(response).
UpdateFromResponse(c, body) ==
    [c EXCEPT !["state"] = NsSet(c["state"], "last_response", body).data]

\* ------------------------------------------------------------------------
\* Python str(value) and repr(value)
\* ------------------------------------------------------------------------
\* The keys of a dict in iteration order.  Insertion order is not part of
\* the encoding of a dict; one fixed enumeration of the keys is used.
KeysOf(f) ==
    LET n == Cardinality(DOMAIN f)
    IN  CHOOSE q \in [1..n -> DOMAIN f] : \A k \in DOMAIN f : \E i \in 1..n : q[i] = k

RECURSIVE PyRepr(_)
RECURSIVE PyReprItems(_, _)
\* repr(v)
PyRepr(v) ==
    IF v.t = "str" THEN "'" \o v.s \o "'"
    ELSE IF v.t = "map" THEN "{" \o PyReprItems(v.m, KeysOf(v.m)) \o "}"
    ELSE v.s
PyReprItems(f, keys) ==
    IF keys = <<>> THEN ""
    ELSE "'" \o Head(keys) \o "': " \o PyRepr(f[Head(keys)])
         \o (IF Len(keys) > 1 THEN ", " ELSE "")
         \o PyReprItems(f, Tail(keys))

\* str(v), as a Python str value.
PyStrOf(v) == IF v.t = "str" THEN v ELSE PyStr(PyRepr(v))

\* ------------------------------------------------------------------------
\* templating/engine.py
\* ------------------------------------------------------------------------
\* TEMPLATE_PATTERN = \{\{([^}]+)\}\} tried at position i of s: the end of
\* the match, or 0.  [^}]+ runs to the first "}" and cannot give it back.
MatchAt(s, i) ==
    IF Slice(s, i, i + 1) # "{{" THEN 0
    ELSE LET close(j) ==
                 IF j > i + 2 /\ Slice(s, j, j + 1) = "}}" THEN j + 1 ELSE 0
         IN  close(Find(s, "}", i + 2))

\* match.group(1) of the match of s[i..e].
Group1(s, i, e) == Slice(s, i + 2, e - 2)

\* _resolve_path without its except clauses: the ContextPathError of the
\* lookup reaches the caller as it is.
ResolvePathUncaught(path, c) ==
    LET unchanged(r) == [r EXCEPT !.data = c]
    IN  IF StartsWith(path, "response.")
        THEN unchanged(NsGet("state", c["state"],
                             "last_response." \o Slice(path, 10, Len(path))))
        ELSE RtGet(c, path)

\* TemplateEngine._resolve_path(path, context)
ResolvePath(path, c) ==
    LET fromResponse(r) ==
            IF r.exc = "ContextPathError"
            THEN Raise("TemplateResolutionError",
                       "Response path not found: " \o path, c)
            ELSE [r EXCEPT !.data = c]
        fromContext(r) ==
            IF r.exc = "ContextPathError"
            THEN Raise("TemplateResolutionError",
                       "Failed to resolve path '" \o path \o "': " \o r.msg,
                       c)
            ELSE r
    IN  IF StartsWith(path, "response.")
        THEN fromResponse(NsGet("state", c["state"],
                                "last_response." \o Slice(path, 10, Len(path))))
        ELSE fromContext(RtGet(c, path))

RECURSIVE SubAll(_, _, _)
\* TEMPLATE_PATTERN.sub(replace_match, template) from position i on:
\* [exc, msg, text].  replace_match returns str(value) of the resolved path.
SubAll(s, i, c) ==
    LET before(text, rest) ==
            IF rest.exc # "none" THEN rest
            ELSE [rest EXCEPT !.text = text \o @]
        replaced(r, e) ==
            IF r.exc # "none"
            THEN [exc |-> r.exc, msg |-> r.msg, text |-> ""]
            ELSE before(PyStrOf(r.val).s, SubAll(s, e + 1, c))
        at(e) ==
            IF e = 0 THEN before(CharAt(s, i), SubAll(s, i + 1, c))
            ELSE replaced(ResolvePath(Strip(Group1(s, i, e)), c), e)
    IN  IF i > Len(s) THEN [exc |-> "none", msg |-> "", text |-> ""]
        ELSE at(MatchAt(s, i))

\* TemplateEngine.resolve that substitutes in every template, the single
\* expression included.
ResolveAlwaysString(template0, c) ==
    LET substituted(r) ==
            IF r.exc # "none"
            THEN Raise("TemplateResolutionError", r.msg, c)
            ELSE Ret(PyStr(r.text), c)
    IN  substituted(SubAll(Strip(template0), 1, c))

\* TemplateEngine.resolve(template, context)
Resolve(template0, c) ==
    LET substituted(template, r) ==
            IF r.exc # "none"
            THEN Raise("TemplateResolutionError",
                       "Failed to resolve template '" \o template
                           \o "': " \o r.msg, c)
            ELSE Ret(PyStr(r.text), c)
        of(template) ==
            IF Len(template) > 0 /\ MatchAt(template, 1) = Len(template)
            THEN ResolvePath(Strip(Group1(template, 1, Len(template))), c)
            ELSE substituted(template, SubAll(template, 1, c))
    IN  of(Strip(template0))

\* An except clause of resolve_params that names ContextPathError only.
ParamsCaughtPathOnly == {"ContextPathError"}

\* The exception classes resolve_params catches.
ParamsCaught == {"TemplateResolutionError", "ContextPathError"}

RECURSIVE ResolveParams(_, _, _)
\* TemplateEngine.resolve_params(template_params, context, strict) on the
\* dict function tp.  A str is a template, a dict is resolved recursively,
\* anything else is passed through.
ResolveParams(tp, c, strict) ==
    LET one(k) == IF tp[k].t = "str" THEN Resolve(tp[k].s, c)
                  ELSE IF tp[k].t = "map"
                       THEN ResolveParams(tp[k].m, c, strict)
                       ELSE Ret(tp[k], c)
        collect(r) ==
            LET failed == {k \in DOMAIN tp : r[k].exc # "none"}
                fatal == {k \in failed :
                             strict \/ r[k].exc \notin ParamsCaught}
            IN  IF fatal # {}
                THEN LET k == CHOOSE k \in fatal : TRUE
                     IN  Raise(r[k].exc, r[k].msg, c)
                ELSE Ret(Mp([k \in (DOMAIN tp) \ failed |-> r[k].val]), c)
    IN  collect([k \in DOMAIN tp |-> one(k)])

\* TemplateEngine.extract_paths(template) from position i on.
RECURSIVE ExtractPaths(_, _)
ExtractPaths(s, i) ==
    IF i > Len(s) THEN <<>>
    ELSE LET at(e) ==
                 IF e = 0 THEN ExtractPaths(s, i + 1)
                 ELSE <<Strip(Group1(s, i, e))>> \o ExtractPaths(s, e + 1)
         IN  at(MatchAt(s, i))

\* ------------------------------------------------------------------------
\* execution/state_manager.py
\* ------------------------------------------------------------------------
\* A list as a Python sequence: TLA+ sequences.  A StateUpdate is
\* [operation, table, values, condition], condition being None or a dict.
StateUpdate(operation, table, values, condition) ==
    [operation |-> operation, table |-> table, values |-> values,
     condition |-> condition]

\* dict.get(key, default) on a dict function.
DictGet(f, key, default) == IF key \in DOMAIN f THEN f[key] ELSE default

\* bool(v) for None and dict values.
Truthy(v) == IF v.t = "map" THEN DOMAIN v.m # {} ELSE v.t # "none"

RECURSIVE ParseInt(_)
\* int(s) for a decimal numeral with an optional sign.
ParseInt(s) ==
    IF s = "" THEN 0
    ELSE IF CharAt(s, 1) = "-" THEN 0 - ParseInt(Tail(s))
    ELSE ParseInt(Slice(s, 1, Len(s) - 1)) * 10
         + (Find("0123456789", CharAt(s, Len(s)), 1) - 1)

RECURSIVE PyEq(_, _)
\* a == b: bool is a subclass of int (True == 1), dicts are equal when
\* their keys are the same and the values equal, other values when they
\* have the same type and content.
PyEq(a, b) ==
    IF a.t \in {"int", "bool"} /\ b.t \in {"int", "bool"}
    THEN LET number(v) == IF v.t = "bool"
                          THEN (IF v.s = "True" THEN 1 ELSE 0)
                          ELSE ParseInt(v.s)
         IN  number(a) = number(b)
    ELSE IF a.t = "map" /\ b.t = "map"
         THEN /\ DOMAIN a.m = DOMAIN b.m
              /\ \A key \in DOMAIN a.m : PyEq(a.m[key], b.m[key])
         ELSE a = b

\* InMemoryStateBackend._matches(record, query)
Matches(record, query) ==
    \A key \in DOMAIN query :
        key \in DOMAIN record /\ PyEq(record[key], query[key])

\* InMemoryStateBackend.write(update): [ok, data]
BackendWrite(data, update) ==
    LET rows == DictGet(data, update.table, <<>>)
    IN  [ok |-> TRUE,
         data |-> (update.table :> Append(rows, update.values)) @@ data]

\* read that returns the last matching record.
BackendReadLast(data, table, query) ==
    IF table \notin DOMAIN data THEN None
    ELSE LET match(r) == Matches(r, query)
             found == SelectSeq(data[table], match)
         IN  IF found = <<>> THEN None ELSE Mp(found[Len(found)])

\* InMemoryStateBackend.read(table, query): the record, or None.
BackendRead(data, table, query) ==
    IF table \notin DOMAIN data THEN None
    ELSE LET match(r) == Matches(r, query)
             found == SelectSeq(data[table], match)
         IN  IF found = <<>> THEN None ELSE Mp(Head(found))

\* InMemoryStateBackend.read_all(table, query): the list of records; query
\* is None or a dict.
BackendReadAll(data, table, query) ==
    IF table \notin DOMAIN data THEN <<>>
    ELSE IF query = None THEN data[table]
    ELSE LET match(r) == Matches(r, query.m)
         IN  SelectSeq(data[table], match)

\* InMemoryStateBackend.update(update): [ok, data]
BackendUpdate(data, update) ==
    IF update.table \notin DOMAIN data THEN [ok |-> FALSE, data |-> data]
    ELSE LET rows == data[update.table]
             hit(r) == Truthy(update.condition)
                       /\ Matches(r, update.condition.m)
         IN  [ok |-> \E n \in DOMAIN rows : hit(rows[n]),
              data |-> [data EXCEPT ![update.table] =
                          [n \in DOMAIN rows |->
                              IF hit(rows[n])
                              THEN update.values @@ rows[n]
                              ELSE rows[n]]]]

\* delete that removes the first matching record only.
BackendDeleteFirst(data, table, condition) ==
    IF table \notin DOMAIN data THEN [ok |-> FALSE, data |-> data]
    ELSE LET hits == {n \in DOMAIN data[table] :
                         Matches(data[table][n], condition)}
             first == CHOOSE n \in hits : \A k \in hits : n <= k
             rows == data[table]
         IN  IF hits = {} THEN [ok |-> FALSE, data |-> data]
             ELSE [ok |-> TRUE,
                   data |-> [data EXCEPT ![table] =
                               SubSeq(rows, 1, first - 1)
                               \o SubSeq(rows, first + 1, Len(rows))]]

\* InMemoryStateBackend.delete(table, condition): [ok, data]
BackendDelete(data, table, condition) ==
    IF table \notin DOMAIN data THEN [ok |-> FALSE, data |-> data]
    ELSE LET keep(r) == ~Matches(r, condition)
             rows == SelectSeq(data[table], keep)
         IN  [ok |-> Len(rows) < Len(data[table]),
              data |-> [data EXCEPT ![table] = rows]]

\* _execute_update that hands a write to the backend twice.
ExecuteUpdateTwice(data, update) ==
    IF update.operation = "write"
    THEN BackendWrite(BackendWrite(data, update).data, update)
    ELSE IF update.operation = "update" THEN BackendUpdate(data, update)
    ELSE IF update.operation = "delete"
         THEN BackendDelete(data, update.table,
                            IF Truthy(update.condition)
                            THEN update.condition.m ELSE EmptyDict)
         ELSE [ok |-> FALSE, data |-> data]

\* StateManager._execute_update(update): [ok, data]
ExecuteUpdate(data, update) ==
    IF update.operation = "write" THEN BackendWrite(data, update)
    ELSE IF update.operation = "update" THEN BackendUpdate(data, update)
    ELSE IF update.operation = "delete"
         THEN BackendDelete(data, update.table,
                            IF Truthy(update.condition)
                            THEN update.condition.m ELSE EmptyDict)
         ELSE [ok |-> FALSE, data |-> data]

\* _resolve_values that leaves out a key whose template cannot be resolved.
ResolveValuesOmitting(values, c) ==
    LET template(key) ==
            values[key].t = "str" /\ Contains(values[key].s, "{{")
        kept == {key \in DOMAIN values :
                    ~template(key) \/ Resolve(values[key].s, c).exc = "none"}
    IN  [key \in kept |->
            IF template(key) THEN Resolve(values[key].s, c).val
            ELSE values[key]]

\* StateManager._resolve_values(values, context): a str holding "{{" is
\* resolved and kept as it is when resolve raises.
ResolveValues(values, c) ==
    LET resolved(r, value) == IF r.exc = "none" THEN r.val ELSE value
    IN  [key \in DOMAIN values |->
            IF values[key].t = "str" /\ Contains(values[key].s, "{{")
            THEN resolved(Resolve(values[key].s, c), values[key])
            ELSE values[key]]

\* config.get(key, {}) resolved by _resolve_values.
ResolvedEntry(config, key, c) ==
    ResolveValues(DictGet(config, key, Mp(EmptyDict)).m, c)

\* StateManager._process_update(update_config, context): a StateUpdate, or
\* None for an entry without a write, update or delete key.
\* The three _create_*_update methods are the three branches.
ProcessUpdate(update_config, c) ==
    LET table(config) == DictGet(config, "table", PyStr("")).s
        write(config) ==
            StateUpdate("write", table(config),
                        ResolvedEntry(config, "values", c), None)
        update(config) ==
            StateUpdate("update", table(config),
                        ResolvedEntry(config, "values", c),
                        Mp(ResolvedEntry(config, "condition", c)))
        delete(config) ==
            StateUpdate("delete", table(config), EmptyDict,
                        Mp(ResolvedEntry(config, "condition", c)))
    IN  IF "write" \in DOMAIN update_config
        THEN write(update_config["write"].m)
        ELSE IF "update" \in DOMAIN update_config
        THEN update(update_config["update"].m)
        ELSE IF "delete" \in DOMAIN update_config
        THEN delete(update_config["delete"].m)
        ELSE None

\* The selection of apply_updates with two independent ifs and no test of
\* the outcome on the failure list.
UpdatesToApplyBoth(state_updates, success) ==
    (IF success /\ "onSuccess" \in DOMAIN state_updates
     THEN state_updates["onSuccess"] ELSE <<>>)
    \o (IF "onFailure" \in DOMAIN state_updates
        THEN state_updates["onFailure"] ELSE <<>>)
    \o (IF "always" \in DOMAIN state_updates
        THEN state_updates["always"] ELSE <<>>)

\* StateManager.apply_updates, the list updates_to_apply.
UpdatesToApply(state_updates, success) ==
    (IF success /\ "onSuccess" \in DOMAIN state_updates
     THEN state_updates["onSuccess"]
     ELSE IF ~success /\ "onFailure" \in DOMAIN state_updates
          THEN state_updates["onFailure"] ELSE <<>>)
    \o (IF "always" \in DOMAIN state_updates
        THEN state_updates["always"] ELSE <<>>)

RECURSIVE ProcessEach(_, _, _, _)
\* StateManager.apply_updates, the loop over updates_to_apply:
\* [applied, data, history].
ProcessEach(todo, c, data, history) ==
    IF todo = <<>>
    THEN [applied |-> <<>>, data |-> data, history |-> history]
    ELSE LET first(state_update, rest) ==
                 [rest EXCEPT !.applied = <<state_update>> \o @]
             each(state_update) ==
                 IF state_update = None
                 THEN ProcessEach(Tail(todo), c, data, history)
                 ELSE first(state_update,
                            ProcessEach(Tail(todo), c,
                                        ExecuteUpdate(data, state_update).data,
                                        Append(history, state_update)))
         IN  each(ProcessUpdate(Head(todo), c))

\* StateManager.apply_updates(state_updates, context, response):
\* [applied, context, data, history].
ApplyUpdates(state_updates, c, response, data, history) ==
    LET applied(c1, r) ==
            [applied |-> r.applied, context |-> c1, data |-> r.data,
             history |-> r.history]
        with(c1) ==
            applied(c1,
                    ProcessEach(UpdatesToApply(state_updates,
                                               response.success),
                                c1, data, history))
    IN  with(UpdateFromResponse(c, response.body))

\* get_history that returns the list object update_history itself.
GetHistoryUncopied(history) == [list |-> history, shared |-> TRUE]

\* StateManager.get_history(): a new list with the items of
\* update_history; `shared` tells whether the returned list is the list
\* object update_history.
GetHistory(history) == [list |-> history, shared |-> FALSE]


\* ------------------------------------------------------------------------
\* parsers/openapi_parser.py, core/models: specs and endpoints
\* ------------------------------------------------------------------------
\* ContextMeshExtension
Extension(logic_module, template_params, state_updates) ==
    [logic_module |-> logic_module, template_params |-> template_params,
     state_updates |-> state_updates]

\* OpenAPIEndpoint; request_schema is a dict, contextmesh is None or an
\* Extension.
Endpoint(operation_id, path, method, request_schema, contextmesh) ==
    [operation_id |-> operation_id, path |-> path, method |-> method,
     request_schema |-> request_schema, contextmesh |-> contextmesh]

\* OpenAPISpec
OpenAPISpec(title, endpoints) == [title |-> title, endpoints |-> endpoints]

\* OpenAPISpec.get_endpoint(operation_id): _endpoint_map is built from the
\* endpoint list, a later endpoint replacing an earlier one of the same id.
GetEndpoint(spec, operation_id) ==
    LET hits == {n \in DOMAIN spec.endpoints :
                    spec.endpoints[n].operation_id = operation_id}
    IN  IF hits = {} THEN None
        ELSE spec.endpoints[CHOOSE n \in hits : \A k \in hits : k <= n]

\* OpenAPISpec.get_endpoints_by_logic_module(logic_module)
GetEndpointsByLogicModule(spec, logic_module) ==
    LET serves(ep) == ep.contextmesh # None
                      /\ ep.contextmesh.logic_module = logic_module
    IN  SelectSeq(spec.endpoints, serves)

\* ------------------------------------------------------------------------
\* core/orchestrator.py
\* ------------------------------------------------------------------------
\* _specs, a dict keyed by title, as the list of its values in insertion
\* order.
RECURSIVE GetEndpointsOfAnyModule(_, _)
\* _get_endpoints_for_module without the filter on the logic module.
GetEndpointsOfAnyModule(specs, logic_module) ==
    IF specs = <<>> THEN <<>>
    ELSE Head(specs).endpoints \o GetEndpointsOfAnyModule(Tail(specs), logic_module)

RECURSIVE GetEndpointsForModule(_, _)
\* ContextMeshOrchestrator._get_endpoints_for_module(logic_module)
GetEndpointsForModule(specs, logic_module) ==
    IF specs = <<>> THEN <<>>
    ELSE GetEndpointsByLogicModule(Head(specs), logic_module)
         \o GetEndpointsForModule(Tail(specs), logic_module)

\* A lookup that asks the first registered spec only.
GetEndpointByIdInFirstSpec(specs, operation_id) ==
    IF specs = <<>> THEN None
    ELSE GetEndpoint(Head(specs), operation_id)

RECURSIVE GetEndpointById(_, _)
\* ContextMeshOrchestrator._get_endpoint_by_id(operation_id)
GetEndpointById(specs, operation_id) ==
    IF specs = <<>> THEN None
    ELSE LET found(endpoint) ==
                 IF endpoint # None THEN endpoint
                 ELSE GetEndpointById(Tail(specs), operation_id)
         IN  found(GetEndpoint(Head(specs), operation_id))

\* ContextMeshOrchestrator._get_playbook(module_name): the playbook's
\* module name, or None.
GetPlaybook(playbooks, module_name) ==
    IF module_name \in playbooks THEN PyStr(module_name) ELSE None

\* ContextMeshOrchestrator._get_base_url(): the override, else the first
\* server url of the specs; the specs here declare no servers.
GetBaseUrl(o) ==
    IF o.base_url_override # "" THEN o.base_url_override ELSE ""

\* RuntimeContext(initial_data): each namespace takes the caller's dict
\* object itself when the key is present and the dict is not empty
\* (`data or {}`), a new dict otherwise.  [context, shared]: the namespace
\* data and the namespaces whose dict is the caller's object.
NewRuntimeContext(initial_data) ==
    LET given(n) == n \in DOMAIN initial_data /\ Truthy(initial_data[n])
    IN  [context |-> [n \in NamespaceNames |->
                        IF given(n) THEN initial_data[n].m ELSE EmptyDict],
         shared |-> {n \in NamespaceNames : given(n)}]

\* The caller's dict after the context, whose namespaces in `shared` are
\* the caller's own dict objects, has become c.
SeenByCaller(initial_data, shared, c) ==
    [n \in DOMAIN initial_data |->
        IF n \in shared THEN Mp(c[n]) ELSE initial_data[n]]

RECURSIVE SetLogicValues(_, _)
\* RuntimeContext.set_logic_values(values); values as the list of the
\* dict's (key, value) items in iteration order.
SetLogicValues(c, items) ==
    IF items = <<>> THEN Ret(None, c)
    ELSE LET key == Head(items)[1]
             value == Head(items)[2]
             inLogic(n) == IF n.exc = "none"
                           THEN Ret(None, [c EXCEPT !["logic"] = n.data])
                           ELSE Raise(n.exc, n.msg, c)
             next(r) == IF r.exc # "none" THEN r
                        ELSE SetLogicValues(r.data, Tail(items))
         IN  next(IF StartsWith(key, "logic.") THEN RtSet(c, key, value)
                  ELSE inLogic(NsSet(c["logic"], key, value)))

\* sorted() replaced by the plan's own order.
PlanPositions(steps) == [n \in DOMAIN steps |-> n]

RECURSIVE InsertByOrder(_, _, _)
\* Position n inserted into the sorted position list q, after every
\* position whose step has an order less than or equal to that of n.
InsertByOrder(steps, q, n) ==
    IF q = <<>> THEN <<n>>
    ELSE IF steps[Head(q)].order <= steps[n].order
         THEN <<Head(q)>> \o InsertByOrder(steps, Tail(q), n)
         ELSE <<n>> \o q

RECURSIVE SortedPrefix(_, _)
SortedPrefix(steps, k) ==
    IF k = 0 THEN <<>>
    ELSE InsertByOrder(steps, SortedPrefix(steps, k - 1), k)

\* A sort that leaves out the steps that have a depends_on entry.
SortedPositionsWithoutDependants(steps) ==
    SelectSeq(SortedPrefix(steps, Len(steps)),
              LAMBDA n : steps[n].depends_on = <<>>)

\* sorted(plan.steps, key=lambda s: s.order), as the list of positions in
\* plan.steps: Python's sort is stable.
SortedPositions(steps) == SortedPrefix(steps, Len(steps))

\* APIResponse
APIResponse(status_code, body, success, error) ==
    [status_code |-> status_code, body |-> body, success |-> success,
     error |-> error]

\* The response of the second except clause of execute.
Unexpected(message) ==
    APIResponse(0, Mp(EmptyDict), FALSE, PyStr("Unexpected error: " \o message))

\* APIExecutor.execute, the response built from what the HTTP layer did:
\* a status and a JSON body, or an exception (status 0).  `outcome` is
\* [raised, exception, status, body, error]: the client call or
\* response.json() raised `exception` with str(e) = error, or the response
\* has `status` and response.json() gives `body` ({} stands for an empty
\* content too).  APIResponse.body is declared dict: any other body makes
\* the constructor raise a ValidationError inside the try block.
ResponseOf(outcome) ==
    IF outcome.raised
    THEN IF outcome.exception = "HTTPError"
         THEN APIResponse(0, Mp(EmptyDict), FALSE, PyStr(outcome.error))
         ELSE Unexpected(outcome.error)
    ELSE IF ~IsDict(outcome.body)
         THEN Unexpected("1 validation error for APIResponse")
         ELSE APIResponse(outcome.status, outcome.body,
                          200 <= outcome.status /\ outcome.status < 300, None)

\* ------------------------------------------------------------------------
\* execution/api_executor.py: the request
\* ------------------------------------------------------------------------
RECURSIVE Replace(_, _, _)
\* s.replace(old, new), old not empty.
Replace(s, old, new) ==
    LET at(i) ==
            IF i = 0 THEN s
            ELSE Slice(s, 1, i - 1) \o new
                 \o Replace(Slice(s, i + Len(old), Len(s)), old, new)
    IN  at(Find(s, old, 1))

RECURSIVE Upper(_)
\* s.upper()
Upper(s) ==
    IF s = "" THEN ""
    ELSE LET to(i) == IF i = 0 THEN CharAt(s, 1)
                      ELSE CharAt("ABCDEFGHIJKLMNOPQRSTUVWXYZ", i)
         IN  to(Find("abcdefghijklmnopqrstuvwxyz", CharAt(s, 1), 1))
             \o Upper(Tail(s))

RECURSIVE SubstitutePath(_, _, _)
\* APIExecutor._build_url, the loop over params.items().
SubstitutePath(path, params, keys) ==
    IF keys = <<>> THEN path
    ELSE SubstitutePath(Replace(path, "{" \o Head(keys) \o "}",
                                PyStrOf(params[Head(keys)]).s),
                        params, Tail(keys))

\* APIExecutor._build_url(path, params)
BuildUrl(base_url, path, params) ==
    base_url \o SubstitutePath(path, params, KeysOf(params))

\* APIExecutor._separate_params(endpoint, params): [exc, body, query].
\* properties.get and prop_info.get raise AttributeError on a properties
\* or a property entry that is not a dict, at the first key that is not
\* skipped for its leading underscore.
SeparateParams(endpoint, params) ==
    LET properties == DictGet(endpoint.request_schema, "properties",
                              Mp(EmptyDict))
        looked == {key \in DOMAIN params : ~StartsWith(key, "_")}
        prop_info(key) == DictGet(properties.m, key, Mp(EmptyDict))
        param_in(key) == DictGet(prop_info(key).m, "in", PyStr("body"))
    IN  IF looked # {}
           /\ (~IsDict(properties)
               \/ \E key \in looked : ~IsDict(prop_info(key)))
        THEN [exc |-> "AttributeError", body |-> EmptyDict,
              query |-> EmptyDict]
        ELSE LET query == {key \in looked : param_in(key) = PyStr("query")}
                 path == {key \in looked : param_in(key) = PyStr("path")}
             IN  [exc |-> "none",
                  body |-> [key \in looked \ (query \cup path) |-> params[key]],
                  query |-> [key \in query |-> params[key]]]

\* What httpx is asked to send: client.<method>(url, json=..., params=...).
\* json and params are None or a dict.
Request(method, url, json, params) ==
    [method |-> method, url |-> url, json |-> json, params |-> params]
NoRequest == Request("", "", None, None)

\* _make_request that never passes json=body.
MakeRequestWithoutBody(method0, url, body, query) ==
    LET of(method) ==
            IF method \in {"GET", "POST", "PUT", "PATCH", "DELETE"}
            THEN [exc |-> "none", msg |-> "",
                  request |-> Request(method, url, None, query)]
            ELSE [exc |-> "APIExecutionError",
                  msg |-> "Unsupported HTTP method: " \o method,
                  request |-> NoRequest]
    IN  of(Upper(method0))

\* APIExecutor._make_request(method, url, body, query), up to the client
\* call: [exc, msg, request].
MakeRequest(method0, url, body, query) ==
    LET of(method) ==
            IF method \in {"GET", "DELETE"}
            THEN [exc |-> "none", msg |-> "",
                  request |-> Request(method, url, None, query)]
            ELSE IF method \in {"POST", "PUT", "PATCH"}
            THEN [exc |-> "none", msg |-> "",
                  request |-> Request(method, url, body, query)]
            ELSE [exc |-> "APIExecutionError",
                  msg |-> "Unsupported HTTP method: " \o method,
                  request |-> NoRequest]
    IN  of(Upper(method0))

\* APIExecutor.execute(endpoint, params): [exc, request, response].
\* _build_url and _separate_params run before the try block; the two
\* except clauses turn whatever _make_request, the client, response.json()
\* or the APIResponse constructor raise into a response with status 0.
Execute(base_url, endpoint, params, outcome) ==
    LET sent(made) ==
            IF made.exc # "none"
            THEN [exc |-> "none", request |-> NoRequest,
                  response |-> Unexpected(made.msg)]
            ELSE [exc |-> "none", request |-> made.request,
                  response |-> ResponseOf(outcome)]
        separated(url, sep) ==
            IF sep.exc # "none"
            THEN [exc |-> sep.exc, request |-> NoRequest, response |-> None]
            ELSE LET or_none(d) == IF DOMAIN d # {} THEN Mp(d) ELSE None
                 IN  sent(MakeRequest(endpoint.method, url,
                                      or_none(sep.body), or_none(sep.query)))
    IN  separated(BuildUrl(base_url, endpoint.path, params),
                  SeparateParams(endpoint, params))

\* WorkflowResult
WorkflowResult(success, plan, api_responses, state_updates, final_context, errors) ==
    [success |-> success, plan |-> plan, api_responses |-> api_responses,
     state_updates |-> state_updates, final_context |-> final_context,
     errors |-> errors]

\* ------------------------------------------------------------------------
\* State
\* ------------------------------------------------------------------------
VARIABLES
    ctx,              \* a RuntimeContext: [namespace name -> dict]
    last,             \* the last call made on ctx and its outcome
    nops,             \* number of calls made so far
    backend,          \* InMemoryStateBackend._data: [table -> list of rows]
    update_history,   \* StateManager.update_history
    smcall,           \* the last StateManager call, what apply_updates
                      \* returned, and the list its caller holds
    orch,             \* the orchestrator's registered playbooks and specs
    initial_context,  \* the caller's initial_context dict object
    run               \* the execute_workflow activation

ctxVars == <<ctx, last, nops>>
smVars == <<backend, update_history, smcall>>
wfVars == <<orch, initial_context, run>>
vars ==
    <<ctx, last, nops, backend, update_history, smcall, orch,
      initial_context, run>>

NoApply ==
    [op |-> "none", config |-> <<>>, response |-> <<>>, applied |-> <<>>,
     backend_before |-> <<>>, history_before |-> <<>>,
     got |-> FALSE, held |-> <<>>, shared |-> FALSE, returned |-> <<>>]
\* StateManager(InMemoryStateBackend()) before any call.
SmIdle == backend = <<>> /\ update_history = <<>> /\ smcall = NoApply

NoRun ==
    [pc |-> "idle", trigger |-> "", plan |-> None, todo |-> <<>>,
     context |-> EmptyContext, shared |-> {}, errors |-> <<>>,
     api_responses |-> <<>>, state_updates |-> <<>>, calls |-> <<>>,
     skipped |-> <<>>, result |-> None,
     client |-> [open |-> FALSE, created |-> 0, closed |-> 0],
     initial_before |-> <<>>, backend_before |-> <<>>,
     history_before |-> <<>>]
NoOrchestrator == [playbooks |-> {}, specs |-> <<>>, base_url_override |-> ""]
WfIdle == orch = NoOrchestrator /\ initial_context = <<>> /\ run = NoRun

NoCall ==
    [op |-> "none", path |-> "", arg |-> None, exc |-> "none", msg |-> "",
     val |-> None, before |-> EmptyContext]
Call(op, path, arg, r, before) ==
    [op |-> op, path |-> path, arg |-> arg, exc |-> r.exc, msg |-> r.msg,
     val |-> r.val, before |-> before]

\* ------------------------------------------------------------------------
\* Context: a sequence of set / get / has / merge calls on one RuntimeContext
\* ------------------------------------------------------------------------
MaxOps == 2

SetPaths ==
    {n \o "." \o r : n \in NamespaceNames, r \in {"a", "b", "a.b", "a.b.a"}}
GetPaths ==
    SetPaths \cup {"", "db", "nope.a", "response.a", "db.", "db.a.b.a.b"}
SetValues == {PyInt("1"), PyStr("x"), Mp("a" :> PyInt("2"))}
MergeData ==
    { ("db" :> Mp("a" :> Mp("b" :> PyInt("3")))),
      ("db" :> Mp("a" :> PyStr("y"))) @@ ("extra" :> Mp("a" :> PyInt("1"))),
      ("state" :> Mp("a" :> Mp("c" :> PyBool(TRUE)))) @@ ("logic" :> PyInt("4")) }

\* No call has been made yet: a RuntimeContext that is one of `contexts`,
\* a backend whose data is one of `stores`, an empty history and no
\* orchestrator.
InitWith(contexts, stores) ==
    /\ ctx \in contexts /\ last = NoCall /\ nops = 0
    /\ backend \in stores /\ update_history = <<>> /\ smcall = NoApply
    /\ WfIdle

CtxSet(p, v) ==
    /\ nops < MaxOps
    /\ LET r == RtSet(ctx, p, v)
       IN  /\ ctx' = r.data
           /\ last' = Call("set", p, v, r, ctx)
    /\ nops' = nops + 1
    /\ UNCHANGED <<smVars, wfVars>>

CtxGet(p) ==
    /\ nops < MaxOps
    /\ LET r == RtGet(ctx, p)
       IN  /\ ctx' = r.data
           /\ last' = Call("get", p, None, r, ctx)
    /\ nops' = nops + 1
    /\ UNCHANGED <<smVars, wfVars>>

\* RuntimeContext.has(path): only ContextPathError is caught.
CtxHas(p) ==
    /\ nops < MaxOps
    /\ LET tried(got) ==
               IF got.exc = "none" THEN Ret(PyBool(TRUE), ctx)
               ELSE IF got.exc = "ContextPathError"
               THEN Ret(PyBool(FALSE), ctx)
               ELSE Raise(got.exc, got.msg, ctx)
           r == tried(RtGet(ctx, p))
       IN  /\ ctx' = r.data
           /\ last' = Call("has", p, None, r, ctx)
    /\ nops' = nops + 1
    /\ UNCHANGED <<smVars, wfVars>>

CtxMerge(d) ==
    /\ nops < MaxOps
    /\ ctx' = RtMerge(ctx, d)
    /\ last' = Call("merge", "", Mp(d), Ret(None, ctx), ctx)
    /\ nops' = nops + 1
    /\ UNCHANGED <<smVars, wfVars>>

NextCtx ==
    \/ \E p \in SetPaths, v \in SetValues : CtxSet(p, v)
    \/ \E p \in GetPaths : CtxGet(p)
    \/ \E p \in GetPaths : CtxHas(p)
    \/ \E d \in MergeData : CtxMerge(d)

SpecCtx == InitWith({EmptyContext}, {<<>>}) /\ [][NextCtx]_vars

\* C7 (as claimed): in every reachable context, ctx.set(p, v) on a path
\* <namespace>.<segment>(.<segment>)* succeeds and a following ctx.get(p)
\* returns v.
C7_SetGetRoundTrip ==
    last.op = "set" =>
        /\ last.exc = "none"
        /\ RtGet(ctx, last.path).exc = "none"
        /\ RtGet(ctx, last.path).val = last.arg

\* What is stored below value v along the segments `parts`, Absent when a
\* segment is missing or lies below a scalar.
Absent == Sc("absent", "")
RECURSIVE StoredBelow(_, _)
StoredBelow(v, parts) ==
    IF parts = <<>> THEN v
    ELSE IF v.t = "map" /\ Head(parts) \in DOMAIN v.m
         THEN StoredBelow(v.m[Head(parts)], Tail(parts))
         ELSE Absent

\* C8: ctx.get(path) returns or raises ContextPathError and nothing else;
\* ctx.has(path) returns a boolean without raising, True exactly when
\* ctx.get(path) succeeds; neither call changes the context.
C8_LookupNeverDefaults ==
    /\ last.op = "get" =>
          /\ last.exc \in {"none", "ContextPathError"}
          /\ last.exc = "none" =>
                LET parts == Split(last.path)
                IN  /\ Len(parts) >= 2
                    /\ parts[1] \in NamespaceNames
                    /\ last.val # Absent
                    /\ last.val = StoredBelow(Mp(ctx[parts[1]]), Tail(parts))
          /\ ctx = last.before
    /\ last.op = "has" =>
          /\ last.exc = "none"
          /\ last.val \in {PyBool(TRUE), PyBool(FALSE)}
          /\ (last.val = PyBool(TRUE)) <=> (RtGet(ctx, last.path).exc = "none")
          /\ ctx = last.before

\* C8 witness: has() answered False for a segment below a scalar.
C8_Witness ==
    /\ last.op = "has"
    /\ last.path = "db.a.b"
    /\ last.val = PyBool(FALSE)
    /\ "a" \in DOMAIN ctx["db"]
    /\ ~IsDict(ctx["db"]["a"])

\* ------------------------------------------------------------------------
\* Templates: resolve / resolve_params calls on a given RuntimeContext
\* ------------------------------------------------------------------------
CtxCustomer ==
    [EmptyContext EXCEPT
        !["db"] = ("x" :> PyInt("5")) @@ ("ok" :> PyBool(TRUE))
                  @@ ("name" :> PyStr("Al"))
                  @@ ("customer" :> Mp("id" :> PyStr("CUST-1"))),
        !["state"] = ("case_id" :> PyStr("CASE-1"))]
TplContexts ==
    { EmptyContext, CtxCustomer,
      UpdateFromResponse(CtxCustomer,
                         Mp(("id" :> PyInt("7")) @@ ("status" :> PyStr("ok")))),
      [EmptyContext EXCEPT !["db"] = ("x" :> PyStr("5"))],
      [EmptyContext EXCEPT
          !["logic"] = ("amount" :> PyInt("75")),
          !["db"] = ("x" :> Mp("y" :> PyBool(FALSE)))] }

Templates ==
    { "{{db.x}}", " {{ db.x }} ", "id-{{db.x}}", "{{db.x}}{{db.name}}",
      "plain", "", "{{db.missing}}", "x {{db.missing}} y", "{{response.id}}",
      "r={{response.id}} {{response.status}}", "{{nope.x}}", "{{db}}",
      "{{db.customer}}", "c={{db.customer}}", "{{db.ok}}!", "{{}}",
      "{{db.x}}}", "{{{db.x}}", "{{db.x.y}}", "{{logic.amount}} EUR",
      "{{db.x}} {{other.x}}" }

TemplateParams ==
    { EmptyDict,
      ("customerId" :> PyStr("{{db.customer.id}}"))
        @@ ("note" :> PyStr("case {{state.case_id}}")),
      ("customerId" :> PyStr("{{db.customer.id}}"))
        @@ ("missing" :> PyStr("{{db.missing}}")),
      ("nested" :> Mp(("a" :> PyStr("{{db.x}}"))
                      @@ ("b" :> PyStr("n={{db.missing}}"))))
        @@ ("n" :> PyInt("3")),
      ("r" :> PyStr("{{response.id}}")) @@ ("k" :> PyStr("const")),
      ("bad" :> PyStr("{{nope}}")) }

TplResolve(t) ==
    /\ LET r == Resolve(t, ctx)
       IN  /\ ctx' = r.data
           /\ last' = Call("resolve", t, None, r, ctx)
    /\ UNCHANGED <<nops, smVars, wfVars>>

TplResolveParams(tp, strict) ==
    /\ LET r == ResolveParams(tp, ctx, strict)
       IN  /\ ctx' = r.data
           /\ last' = Call(IF strict THEN "resolve_params_strict"
                           ELSE "resolve_params", "", Mp(tp), r, ctx)
    /\ UNCHANGED <<nops, smVars, wfVars>>

NextTpl ==
    \/ \E t \in Templates : TplResolve(t)
    \/ \E tp \in TemplateParams, strict \in BOOLEAN :
          TplResolveParams(tp, strict)

SpecTpl == InitWith(TplContexts, {<<>>}) /\ [][NextTpl]_vars

RECURSIVE AnyUnresolvable(_, _)
\* Some template of tp, at any depth, does not resolve in c.
AnyUnresolvable(tp, c) ==
    \E k \in DOMAIN tp :
        \/ tp[k].t = "str" /\ Resolve(tp[k].s, c).exc # "none"
        \/ tp[k].t = "map" /\ AnyUnresolvable(tp[k].m, c)

RECURSIVE ResolvableOnly(_, _)
\* tp restricted, at every depth, to the keys that resolve in c, each with
\* its resolved value.
ResolvableOnly(tp, c) ==
    [k \in {k \in DOMAIN tp :
                tp[k].t = "str" => Resolve(tp[k].s, c).exc = "none"} |->
        IF tp[k].t = "str" THEN Resolve(tp[k].s, c).val
        ELSE IF tp[k].t = "map" THEN Mp(ResolvableOnly(tp[k].m, c))
        ELSE tp[k]]

\* C9: resolve_params with strict=False never raises; its result holds
\* exactly the keys whose templates resolve, each with the resolved value
\* (nested maps likewise, other values passed through); with strict=True it
\* raises exactly when some key is unresolvable.  The context is unchanged.
C9_NonStrictOmits ==
    /\ last.op = "resolve_params" =>
          /\ last.exc = "none"
          /\ last.val = Mp(ResolvableOnly(last.arg.m, last.before))
          /\ ctx = last.before
    /\ last.op = "resolve_params_strict" =>
          /\ (last.exc # "none") <=> AnyUnresolvable(last.arg.m, last.before)
          /\ last.exc = "none" =>
                last.val = Mp(ResolvableOnly(last.arg.m, last.before))
          /\ ctx = last.before

\* C9 witness: a non-strict call dropped an unresolvable key and kept a
\* resolvable one.
C9_Witness ==
    /\ last.op = "resolve_params"
    /\ DOMAIN last.arg.m = {"customerId", "missing"}
    /\ last.val = Mp("customerId" :> PyStr("CUST-1"))

\* The whole trimmed template is exactly one {{...}} expression.
IsSingleExpression(t) ==
    LET s == Strip(t)
    IN  /\ Len(s) >= 5
        /\ Slice(s, 1, 2) = "{{"
        /\ Slice(s, Len(s) - 1, Len(s)) = "}}"
        /\ ~Contains(Slice(s, 3, Len(s) - 2), "}")

\* C10: resolve returns the context value itself, with its native type,
\* exactly when the whole trimmed template is one {{...}} expression; in
\* every other case it returns a str in which each expression is replaced
\* by the string form of its value.
C10_NativeTypeIffSingle ==
    (last.op = "resolve" /\ last.exc = "none") =>
        LET paths == ExtractPaths(Strip(last.path), 1)
        IN  IF IsSingleExpression(last.path)
            THEN /\ Len(paths) = 1
                 /\ last.val = ResolvePath(paths[1], last.before).val
            ELSE /\ last.val.t = "str"
                 /\ \A i \in DOMAIN paths :
                       LET v == ResolvePath(paths[i], last.before).val
                       IN  /\ Contains(last.val.s, PyStrOf(v).s)
                           /\ ~Contains(last.val.s, "{{" \o paths[i] \o "}}")
                 /\ paths = <<>> => last.val.s = Strip(last.path)

\* C10 witness: a mixed template over an int value gave the string form.
C10_Witness ==
    /\ last.op = "resolve"
    /\ last.path = "id-{{db.x}}"
    /\ "x" \in DOMAIN last.before["db"]
    /\ last.before["db"]["x"] = PyInt("5")
    /\ last.val = PyStr("id-5")

\* What the path of an expression names in context c: the value below
\* <namespace>.<segments>, response.<segments> standing for
\* state.last_response.<segments>; Absent when the path has no separator,
\* another prefix, or a segment that is not stored.
Named(path, c) ==
    LET parts == Split(path)
    IN  IF Len(parts) < 2 THEN Absent
        ELSE IF parts[1] = "response"
             THEN StoredBelow(Mp(c["state"]), <<"last_response">> \o Tail(parts))
             ELSE IF parts[1] \in NamespaceNames
                  THEN StoredBelow(Mp(c[parts[1]]), Tail(parts))
                  ELSE Absent

\* C11: resolve returns or raises TemplateResolutionError and nothing
\* else; it raises exactly when some expression of the template, single or
\* mixed, has a path that names nothing in the context (absent, unknown
\* prefix, no separator, response.* before any response); the context is
\* unchanged.
C11_OnlyTemplateResolutionError ==
    last.op = "resolve" =>
        LET paths == ExtractPaths(Strip(last.path), 1)
            unresolved == \E i \in DOMAIN paths :
                              Named(paths[i], last.before) = Absent
        IN  /\ last.exc \in {"none", "TemplateResolutionError"}
            /\ (last.exc = "TemplateResolutionError") <=> unresolved
            /\ ctx = last.before

\* C11 witness: a single response.* expression resolved before any response
\* was stored raised TemplateResolutionError.
C11_Witness ==
    /\ last.op = "resolve"
    /\ last.path = "{{response.id}}"
    /\ "last_response" \notin DOMAIN last.before["state"]
    /\ last.exc = "TemplateResolutionError"
    /\ ctx = last.before

\* ------------------------------------------------------------------------
\* State manager: apply_updates calls on one StateManager
\* ------------------------------------------------------------------------
AllUpdates ==
    ("onSuccess" :>
        << "write" :>
               Mp(("table" :> PyStr("log"))
                  @@ ("values" :>
                         Mp(("case" :> PyStr("{{state.case_id}}"))
                            @@ ("adjustment" :> PyStr("{{response.id}}"))))) >>)
    @@ ("onFailure" :>
           << "write" :>
                  Mp(("table" :> PyStr("failures"))
                     @@ ("values" :>
                            Mp("case" :> PyStr("{{state.case_id}}")))) >>)
    @@ ("always" :>
           << "update" :>
                  Mp(("table" :> PyStr("log"))
                     @@ ("values" :> Mp("seen" :> PyBool(TRUE)))
                     @@ ("condition" :>
                            Mp("case" :> PyStr("{{state.case_id}}")))) >>)
StateUpdateConfigs ==
    LET write_log == AllUpdates["onSuccess"][1]
        write_failure == AllUpdates["onFailure"][1]
        delete_audit ==
            "delete" :> Mp(("table" :> PyStr("audit"))
                           @@ ("condition" :> Mp("case" :> PyStr("CASE-1"))))
        write_audit ==
            "write" :> Mp(("table" :> PyStr("audit"))
                          @@ ("values" :>
                                 Mp("case" :> PyStr("{{state.case_id}}"))))
    IN  { AllUpdates,
          ("onSuccess" :>
              <<write_log, "upsert" :> Mp("table" :> PyStr("log"))>>)
          @@ ("always" :> <<write_audit>>),
          ("onFailure" :> <<write_failure, delete_audit>>),
          ("always" :> <<write_audit, delete_audit>>),
          <<>> }

\* A 200 with {"id": 7}, a 500 with an error body, and a transport error.
HttpOutcomes ==
    { [raised |-> FALSE, exception |-> "", status |-> 200,
       body |-> Mp("id" :> PyInt("7")), error |-> ""],
      [raised |-> FALSE, exception |-> "", status |-> 500,
       body |-> Mp("error" :> PyStr("bad")), error |-> ""],
      [raised |-> TRUE, exception |-> "HTTPError", status |-> 0,
       body |-> Mp(EmptyDict), error |-> "timeout"] }

MaxSmOps == 3

\* apply_updates(config, context, response) with the response the
\* executor builds from `outcome`.
SmApplyUpdates(config, outcome) ==
    /\ nops < MaxSmOps
    /\ LET applied(response, r) ==
               /\ ctx' = r.context
               /\ backend' = r.data
               /\ update_history' = r.history
               /\ smcall' = [op |-> "apply_updates", config |-> config,
                             response |-> response, applied |-> r.applied,
                             backend_before |-> backend,
                             history_before |-> update_history,
                             got |-> smcall.got,
                             held |-> IF smcall.shared THEN r.history
                                      ELSE smcall.held,
                             shared |-> smcall.shared,
                             returned |-> smcall.returned \o r.applied]
           with(response) ==
               applied(response,
                       ApplyUpdates(config, ctx, response, backend,
                                    update_history))
       IN  with(ResponseOf(outcome))
    /\ nops' = nops + 1
    /\ UNCHANGED <<last, wfVars>>

\* history = manager.get_history()
SmGetHistory ==
    /\ nops < MaxSmOps
    /\ LET got(r) ==
               smcall' = [smcall EXCEPT !.op = "get_history", !.got = TRUE,
                                        !.held = r.list, !.shared = r.shared]
       IN  got(GetHistory(update_history))
    /\ nops' = nops + 1
    /\ UNCHANGED <<ctx, last, backend, update_history, wfVars>>

\* The caller appends to or clears the list get_history gave it; the log
\* changes with it when the two are one list object.
SmEditHeld(edit) ==
    /\ nops < MaxSmOps
    /\ smcall.got
    /\ LET edited == IF edit = "append" THEN Append(smcall.held,
                                   StateUpdate("write", "forged",
                                               EmptyDict, None))
                     ELSE <<>>
       IN  /\ smcall' = [smcall EXCEPT !.op = "edit", !.held = edited]
           /\ update_history' = IF smcall.shared THEN edited
                                 ELSE update_history
    /\ nops' = nops + 1
    /\ UNCHANGED <<ctx, last, backend, wfVars>>

\* manager.clear_history()
SmClearHistory ==
    /\ nops < MaxSmOps
    /\ update_history' = <<>>
    /\ smcall' = [smcall EXCEPT !.op = "clear_history", !.returned = <<>>,
                                !.held = IF smcall.shared
                                         THEN <<>>
                                         ELSE @]
    /\ nops' = nops + 1
    /\ UNCHANGED <<ctx, last, backend, wfVars>>

NextSm ==
    \/ \E config \in StateUpdateConfigs, o \in HttpOutcomes :
          SmApplyUpdates(config, o)
    \/ SmGetHistory
    \/ \E edit \in {"append", "clear"} : SmEditHeld(edit)
    \/ SmClearHistory

SpecSm ==
    InitWith({EmptyContext, CtxCustomer}, {<<>>}) /\ [][NextSm]_vars

\* The StateUpdates of the entries of `entries` that have a write, update
\* or delete key, resolved in context c.
UpdatesOf(entries, c) ==
    LET known(e) == DOMAIN e \cap {"write", "update", "delete"} # {}
        kept == SelectSeq(entries, known)
    IN  [n \in DOMAIN kept |-> ProcessUpdate(kept[n], c)]

\* C5: with response.success the onSuccess entries and then the always
\* entries are applied and no onFailure entry is; without it the onFailure
\* entries and then the always entries are applied and no onSuccess entry
\* is.
C5_SelectedByOutcome ==
    smcall.op = "apply_updates" =>
        LET cfg == smcall.config
            ok == smcall.response.success
            chosen == DictGet(cfg, IF ok THEN "onSuccess" ELSE "onFailure", <<>>)
            other == DictGet(cfg, IF ok THEN "onFailure" ELSE "onSuccess", <<>>)
            always == DictGet(cfg, "always", <<>>)
        IN  /\ smcall.applied = UpdatesOf(chosen, ctx) \o UpdatesOf(always, ctx)
            /\ \A n \in DOMAIN other : \A k \in DOMAIN smcall.applied :
                  smcall.applied[k] # ProcessUpdate(other[n], ctx)
            /\ update_history = smcall.history_before \o smcall.applied

\* C5 witness: a failed call applied the onFailure entry and then the
\* always entry of a config that also has an onSuccess list.
C5_Witness ==
    /\ smcall.op = "apply_updates"
    /\ ~smcall.response.success
    /\ smcall.config = AllUpdates
    /\ Len(smcall.applied) = 2
    /\ smcall.applied[1].table = "failures"
    /\ smcall.applied[2].operation = "update"

\* The operation key of a state-update entry, "" when it has none.
OperationOf(entry) ==
    IF "write" \in DOMAIN entry THEN "write"
    ELSE IF "update" \in DOMAIN entry THEN "update"
    ELSE IF "delete" \in DOMAIN entry THEN "delete" ELSE ""

\* TRUE when every expression of the template names a stored value.
Resolvable(template, c) ==
    LET paths == ExtractPaths(Strip(template), 1)
    IN  \A i \in DOMAIN paths : Named(paths[i], c) # Absent

\* TRUE when `got` holds, for every key of the configured map, the resolved
\* value of a resolvable template, the literal string of an unresolvable
\* one, and any other value as it is.
ResolvedLeniently(got, configured, c) ==
    /\ DOMAIN got = DOMAIN configured
    /\ \A key \in DOMAIN configured :
          LET value == configured[key]
          IN  IF value.t = "str" /\ Contains(value.s, "{{")
              THEN IF Resolvable(value.s, c)
                   THEN got[key] = Resolve(value.s, c).val
                   ELSE got[key] = value
              ELSE got[key] = value

RECURSIVE ExecutedInTurn(_, _)
\* The backend data after the updates were executed one after the other.
ExecutedInTurn(updates, data) ==
    IF updates = <<>> THEN data
    ELSE ExecutedInTurn(Tail(updates), ExecuteUpdate(data, Head(updates)).data)

\* C18: apply_updates never aborts on a template of an entry's values or
\* condition that cannot be resolved: every selected entry with a write,
\* update or delete key yields a StateUpdate, in order, in which an
\* unresolvable key keeps its literal template string and a resolvable key
\* has its resolved native value, and the backend was given exactly these
\* StateUpdates.
C18_UnresolvedValuesKeptLiterally ==
    smcall.op = "apply_updates" =>
        LET selected == UpdatesToApply(smcall.config, smcall.response.success)
            known(e) == OperationOf(e) # ""
            kept == SelectSeq(selected, known)
            body(n) == kept[n][OperationOf(kept[n])].m
            part(n, key) == DictGet(body(n), key, Mp(EmptyDict)).m
        IN  /\ Len(smcall.applied) = Len(kept)
            /\ \A n \in DOMAIN kept :
                  /\ smcall.applied[n].operation = OperationOf(kept[n])
                  /\ OperationOf(kept[n]) \in {"write", "update"} =>
                        ResolvedLeniently(smcall.applied[n].values,
                                          part(n, "values"), ctx)
                  /\ OperationOf(kept[n]) \in {"update", "delete"} =>
                        ResolvedLeniently(smcall.applied[n].condition.m,
                                          part(n, "condition"), ctx)
            /\ backend = ExecutedInTurn(smcall.applied, smcall.backend_before)

\* C18 witness: with no case id in the context a successful call wrote a
\* log row whose case is the literal template and whose adjustment is the
\* resolved response id, and went on to apply the always entry.
C18_Witness ==
    /\ smcall.op = "apply_updates"
    /\ smcall.response.success
    /\ "case_id" \notin DOMAIN ctx["state"]
    /\ Len(smcall.applied) = 2
    /\ smcall.applied[1].table = "log"
    /\ smcall.applied[1].values["case"] = PyStr("{{state.case_id}}")
    /\ smcall.applied[1].values["adjustment"] = PyInt("7")
    /\ smcall.applied[2].table = "audit"
    /\ \E n \in DOMAIN backend["log"] :
          backend["log"][n] = smcall.applied[1].values

\* C19: with `returned` the concatenation, in call order, of the lists
\* apply_updates returned since the StateManager was made or its history
\* last cleared, get_history() equals `returned` at any moment, also after
\* the caller has edited a list an earlier get_history gave it; every
\* StateUpdate an apply_updates call returns stands for one selected entry
\* with a write, update or delete key, in order, and the backend executed
\* each of them once.
C19_HistoryIsReturnedLists ==
    /\ GetHistory(update_history).list = smcall.returned
    /\ smcall.op = "get_history" => smcall.held = smcall.returned
    /\ smcall.op = "apply_updates" =>
          LET known(e) == OperationOf(e) # ""
              kept == SelectSeq(UpdatesToApply(smcall.config,
                                               smcall.response.success),
                                known)
          IN  /\ Len(smcall.applied) = Len(kept)
              /\ \A n \in DOMAIN kept :
                    smcall.applied[n] = ProcessUpdate(kept[n], ctx)
              /\ backend = ExecutedInTurn(smcall.applied,
                                          smcall.backend_before)
              /\ update_history = smcall.history_before \o smcall.applied

\* C19 witness: after a call that applied two updates the caller appended
\* to the list get_history gave it, and the log still holds the two.
C19_Witness ==
    /\ smcall.op = "edit"
    /\ Len(smcall.returned) = 2
    /\ smcall.held = Append(smcall.returned,
                            StateUpdate("write", "forged", EmptyDict, None))
    /\ update_history = smcall.returned

\* ------------------------------------------------------------------------
\* Backend: write / read / read_all / update / delete calls on one
\* InMemoryStateBackend
\* ------------------------------------------------------------------------
MaxBackendOps == 2

Tables == {"items", "other"}
RowValues ==
    { ("id" :> PyStr("1")) @@ ("category" :> PyStr("A")),
      ("id" :> PyStr("2")) @@ ("category" :> PyStr("A"))
      @@ ("flag" :> PyBool(TRUE)) }
NewValues == {("value" :> PyStr("updated")), ("category" :> PyStr("B"))}
Queries ==
    { EmptyDict,
      ("category" :> PyStr("A")),
      ("category" :> PyStr("A")) @@ ("flag" :> PyInt("1")),
      ("id" :> PyStr("999")) }
\* StateUpdate.condition: None or a dict
Conditions == {None} \cup {Mp(q) : q \in Queries}

\* The data after four writes.
Seeded ==
    LET w(data, table, values) ==
            BackendWrite(data, StateUpdate("write", table, values, None)).data
        first == ("id" :> PyStr("1")) @@ ("category" :> PyStr("A"))
        second == first @@ ("flag" :> PyBool(TRUE))
        third == ("id" :> PyStr("3")) @@ ("category" :> PyStr("B"))
    IN  w(w(w(w(<<>>, "items", first),
              "items", [second EXCEPT !["id"] = PyStr("2")]),
            "items", third), "other", first)

BackendCall(op, table, values, condition, result, before) ==
    [op |-> op, table |-> table, values |-> values, condition |-> condition,
     result |-> result, before |-> before]

\* backend.write(StateUpdate("write", table, values))
BkWrite(table, values) ==
    /\ nops < MaxBackendOps
    /\ LET done(r) ==
               /\ backend' = r.data
               /\ last' = BackendCall("write", table, values, None,
                                      PyBool(r.ok), backend)
       IN  done(BackendWrite(backend,
                             StateUpdate("write", table, values, None)))
    /\ nops' = nops + 1
    /\ UNCHANGED <<ctx, update_history, smcall, wfVars>>

\* backend.read(table, query)
BkRead(table, query) ==
    /\ nops < MaxBackendOps
    /\ last' = BackendCall("read", table, EmptyDict, Mp(query),
                           BackendRead(backend, table, query), backend)
    /\ nops' = nops + 1
    /\ UNCHANGED <<ctx, smVars, wfVars>>

\* backend.read_all(table, query), query None or a dict
BkReadAll(table, query) ==
    /\ nops < MaxBackendOps
    /\ last' = BackendCall("read_all", table, EmptyDict, query,
                           BackendReadAll(backend, table, query), backend)
    /\ nops' = nops + 1
    /\ UNCHANGED <<ctx, smVars, wfVars>>

\* backend.update(StateUpdate("update", table, values, condition))
BkUpdate(table, values, condition) ==
    /\ nops < MaxBackendOps
    /\ LET done(r) ==
               /\ backend' = r.data
               /\ last' = BackendCall("update", table, values, condition,
                                      PyBool(r.ok), backend)
       IN  done(BackendUpdate(backend,
                              StateUpdate("update", table, values, condition)))
    /\ nops' = nops + 1
    /\ UNCHANGED <<ctx, update_history, smcall, wfVars>>

\* _execute_update(StateUpdate("delete", table, {}, condition)):
\* backend.delete(table, condition or {})
BkDelete(table, condition) ==
    /\ nops < MaxBackendOps
    /\ LET done(r) ==
               /\ backend' = r.data
               /\ last' = BackendCall("delete", table, EmptyDict, condition,
                                      PyBool(r.ok), backend)
       IN  done(ExecuteUpdate(backend,
                              StateUpdate("delete", table, EmptyDict,
                                          condition)))
    /\ nops' = nops + 1
    /\ UNCHANGED <<ctx, update_history, smcall, wfVars>>

NextBackend ==
    \/ \E table \in Tables, values \in RowValues : BkWrite(table, values)
    \/ \E table \in Tables, query \in Queries : BkRead(table, query)
    \/ \E table \in Tables, query \in Conditions : BkReadAll(table, query)
    \/ \E table \in Tables, values \in NewValues, condition \in Conditions :
          BkUpdate(table, values, condition)
    \/ \E table \in Tables, condition \in Conditions :
          BkDelete(table, condition)

SpecBackend ==
    InitWith({EmptyContext}, {<<>>, Seeded}) /\ [][NextBackend]_vars

\* The rows of a table of the backend data, none for an unknown table.
RowsOf(data, table) == DictGet(data, table, <<>>)

\* A row matches a condition: every key of the condition is present in
\* the row with an equal value.
RowMatches(row, condition) ==
    \A key \in DOMAIN condition :
        key \in DOMAIN row /\ PyEq(row[key], condition[key])

\* The positions of the rows of `rows` that match, and the k-th of them.
MatchingPositions(rows, condition) ==
    {n \in DOMAIN rows : RowMatches(rows[n], condition)}
NthOf(positions, k) ==
    CHOOSE n \in positions : Cardinality({j \in positions : j <= n}) = k

\* The rows of `rows` at the given positions, in their order in `rows`.
RowsAt(rows, positions) ==
    [k \in 1..Cardinality(positions) |-> rows[NthOf(positions, k)]]

\* Every table but `table` is as it was before the call.
OtherTablesUnchanged(table) ==
    /\ DOMAIN backend \cup {table} = DOMAIN last.before \cup {table}
    /\ \A t \in DOMAIN backend \ {table} : backend[t] = last.before[t]

\* C15: write appends values as the last row of its table and changes
\* nothing else; read_all returns the matching rows in insertion order,
\* all rows without query; read returns the first matching row, and None
\* exactly when no row matches or the table is unknown; the reads change
\* nothing.
C15_WriteAppendsReadsFilter ==
    LET rows == RowsOf(last.before, last.table)
    IN  /\ last.op = "write" =>
              /\ backend[last.table] = rows \o <<last.values>>
              /\ OtherTablesUnchanged(last.table)
              /\ last.result = PyBool(TRUE)
        /\ last.op = "read_all" =>
              /\ last.result
                    = IF last.condition = None THEN rows
                      ELSE RowsAt(rows, MatchingPositions(rows,
                                                        last.condition.m))
              /\ backend = last.before
        /\ last.op = "read" =>
              LET hits == MatchingPositions(rows, last.condition.m)
              IN  /\ hits = {} <=> last.result = None
                  /\ hits # {} => last.result = Mp(rows[NthOf(hits, 1)])
                  /\ (last.result = None)
                        <=> (BackendReadAll(backend, last.table,
                                            last.condition) = <<>>)
                  /\ backend = last.before

\* C15 witness: read on a table of three rows returned the first of the
\* two rows that match on both keys of the query (flag True equals 1).
C15_Witness ==
    /\ last.op = "read"
    /\ last.before = Seeded
    /\ last.table = "items"
    /\ last.condition = Mp(("category" :> PyStr("A")) @@ ("flag" :> PyInt("1")))
    /\ last.result = Mp(Seeded["items"][2])

\* C16 (as claimed): update sets values on exactly the rows that match
\* the condition, the empty condition matching every row; number and
\* order of rows, the other rows and the other tables stay; it returns
\* True exactly when a row matched.
C16_UpdateMatchingRows ==
    last.op = "update" =>
        LET rows == RowsOf(last.before, last.table)
            condition == IF last.condition = None THEN EmptyDict
                         ELSE last.condition.m
            hits == MatchingPositions(rows, condition)
        IN  /\ last.condition # None =>
                  /\ Len(RowsOf(backend, last.table)) = Len(rows)
                  /\ \A n \in DOMAIN rows :
                        backend[last.table][n]
                            = IF n \in hits THEN last.values @@ rows[n]
                              ELSE rows[n]
                  /\ last.result = PyBool(hits # {})
            /\ DOMAIN backend = DOMAIN last.before
            /\ \A t \in DOMAIN backend \ {last.table} :
                  backend[t] = last.before[t]

\* C17: delete removes exactly the rows that match the condition, an
\* empty or absent condition matching every row; the other rows keep
\* their order, the other tables stay; it returns True exactly when a row
\* was removed.
C17_DeleteMatchingRows ==
    last.op = "delete" =>
        LET rows == RowsOf(last.before, last.table)
            condition == IF last.condition = None THEN EmptyDict
                         ELSE last.condition.m
            hits == MatchingPositions(rows, condition)
        IN  /\ RowsOf(backend, last.table)
                  = RowsAt(rows, (DOMAIN rows) \ hits)
            /\ last.result = PyBool(hits # {})
            /\ DOMAIN backend = DOMAIN last.before
            /\ \A t \in DOMAIN backend \ {last.table} :
                  backend[t] = last.before[t]

\* C17 witness: of three rows the two of category A were deleted and the
\* third kept.
C17_Witness ==
    /\ last.op = "delete"
    /\ last.before = Seeded
    /\ last.table = "items"
    /\ last.condition = Mp("category" :> PyStr("A"))
    /\ backend["items"] = <<Seeded["items"][3]>>
    /\ backend["other"] = <<Seeded["other"][1]>>
    /\ last.result = PyBool(TRUE)

\* ------------------------------------------------------------------------
\* Executor: execute calls on one APIExecutor
\* ------------------------------------------------------------------------
MaxExecOps == 1

\* request_schema as _extract_request_schema takes it from a requestBody:
\* none, an object schema, one whose property has the boolean schema
\* `true`, and one whose `properties:` was left empty in the document.
ExecEndpoints ==
    LET schemas ==
    { EmptyDict,
      ("type" :> PyStr("object"))
      @@ ("properties" :>
             Mp(("customerId" :> Mp("type" :> PyStr("string")))
                @@ ("limit" :> Mp("in" :> PyStr("query"))))),
      ("type" :> PyStr("object"))
      @@ ("properties" :> Mp("customerId" :> PyBool(TRUE))),
      ("type" :> PyStr("object")) @@ ("properties" :> None) }
    IN  { Endpoint("adjust", "/adjustments/{id}", method, schema, None) :
              method \in {"POST", "get", "TRACE"}, schema \in schemas }
ExecParams ==
    { EmptyDict,
      ("customerId" :> PyStr("CUST-1")),
      ("id" :> PyInt("7")) @@ ("limit" :> PyInt("5")),
      ("_trace" :> PyStr("x")) }

\* The outcomes of the state manager section and: response.json() raising
\* on a body that is not JSON, a JSON body that is not an object, and a
\* redirect that is not followed.
ExecOutcomes ==
    HttpOutcomes
    \cup { [raised |-> TRUE, exception |-> "JSONDecodeError", status |-> 200,
            body |-> Mp(EmptyDict), error |-> "Expecting value"],
           [raised |-> FALSE, exception |-> "", status |-> 200,
            body |-> PyInt("1"), error |-> ""],
           [raised |-> FALSE, exception |-> "", status |-> 300,
            body |-> Mp(EmptyDict), error |-> ""] }

\* APIExecutor(base_url="http://api").execute(endpoint, params), the HTTP
\* layer answering with `outcome`.
ExExecute(endpoint, params, outcome) ==
    /\ nops < MaxExecOps
    /\ LET done(r) ==
               last' = [op |-> "execute", endpoint |-> endpoint,
                        params |-> params, outcome |-> outcome,
                        exc |-> r.exc, request |-> r.request,
                        response |-> r.response]
       IN  done(Execute("http://api", endpoint, params, outcome))
    /\ nops' = nops + 1
    /\ UNCHANGED <<ctx, smVars, wfVars>>

NextExec ==
    \E endpoint \in ExecEndpoints, params \in ExecParams,
       outcome \in ExecOutcomes :
        ExExecute(endpoint, params, outcome)

SpecExec == InitWith({EmptyContext}, {<<>>}) /\ [][NextExec]_vars

\* TRUE when making the request or reading the response fails: the method
\* is not one the executor sends, the client or response.json() raises, or
\* the body is not a JSON object.
RequestFails(endpoint, outcome) ==
    \/ Upper(endpoint.method) \notin {"GET", "POST", "PUT", "PATCH", "DELETE"}
    \/ outcome.raised
    \/ ~IsDict(outcome.body)

\* What C20 says of the response execute returned.
ResponseAsStated ==
    IF RequestFails(last.endpoint, last.outcome)
    THEN /\ last.response.status_code = 0
         /\ ~last.response.success
         /\ last.response.body = Mp(EmptyDict)
         /\ last.response.error # None
    ELSE /\ last.response.status_code = last.outcome.status
         /\ last.response.success
                <=> (200 <= last.response.status_code
                     /\ last.response.status_code < 300)

\* C20: execute never raises to its caller, whatever the endpoint's method
\* and schema and whatever the parameter map; a transport error or an
\* unexpected exception while making the request or reading the response
\* gives status_code 0, success false, an empty body and an error string,
\* and otherwise success is true exactly for a status from 200 to 299.
C20_ExecuteNeverRaises ==
    last.op = "execute" => (last.exc = "none" /\ ResponseAsStated)

\* TRUE when the path has the placeholder {key}.
IsPlaceholder(path, key) ==
    SubstitutePath(path, key :> PyStr(""), <<key>>) # path

\* TRUE when the request sent carries `key` in its JSON body / in its
\* query string.
InBody(request, key) == IsDict(request.json) /\ key \in DOMAIN request.json.m
InQuery(request, key) ==
    IsDict(request.params) /\ key \in DOMAIN request.params.m

\* C21: in the request execute sends, a parameter that is a {name}
\* placeholder of the path is in the URL and in neither the query string
\* nor the body; of the others, the ones the schema declares `in: query`
\* are in the query string only, and the rest are in the JSON body only
\* for POST/PUT/PATCH; a GET or DELETE request has no body.
C21_EachParamOnePlace ==
    (last.op = "execute" /\ last.request # NoRequest) =>
        LET request == last.request
            properties == DictGet(last.endpoint.request_schema, "properties",
                                  Mp(EmptyDict)).m
            declared_query(key) ==
                /\ key \in DOMAIN properties
                /\ DictGet(properties[key].m, "in", PyStr("body"))
                       = PyStr("query")
        IN  /\ request.url
                   = BuildUrl("http://api", last.endpoint.path, last.params)
            /\ request.method \in {"GET", "DELETE"} => request.json = None
            /\ \A key \in DOMAIN last.params :
                   IF IsPlaceholder(last.endpoint.path, key)
                   THEN ~InBody(request, key) /\ ~InQuery(request, key)
                   ELSE IF declared_query(key)
                   THEN InQuery(request, key) /\ ~InBody(request, key)
                   ELSE /\ ~InQuery(request, key)
                        /\ request.method \in {"POST", "PUT", "PATCH"}
                               => InBody(request, key)

\* ------------------------------------------------------------------------
\* Orchestrator: one execute_workflow call, step by step
\* ------------------------------------------------------------------------
MaxSteps == 2

\* findRoom is an operation with `parameters` and no requestBody:
\* _params_to_schema gives each parameter its "in".
Registered ==
    LET createAdjustment ==
            Endpoint("createAdjustment", "/adjustments", "POST",
                     ("type" :> PyStr("object"))
                     @@ ("properties" :>
                            Mp("customerId" :> Mp("type" :> PyStr("string")))),
                     Extension("billing",
                               ("customerId" :> PyStr("{{db.customer.id}}"))
                               @@ ("amount" :> PyStr("{{logic.amount}}"))
                               @@ ("previous" :> PyStr("{{response.id}}")),
                               AllUpdates))
        findRoom ==
            Endpoint("findRoom", "/rooms/{guest}", "GET",
                     ("type" :> PyStr("object"))
                     @@ ("properties" :>
                            Mp(("guest" :> Mp("in" :> PyStr("path")))
                               @@ ("tier" :> Mp("in" :> PyStr("query"))))),
                     Extension("hotel",
                               ("guest" :> PyStr("{{input.guest}}"))
                               @@ ("tier" :> PyStr("{{logic.tier}}"))
                               @@ ("customerId" :> PyStr("{{db.customer.id}}")),
                               EmptyDict))
    IN  [playbooks |-> {"billing", "hotel", "orphan"},
         specs |-> << OpenAPISpec("Billing API",
                                  << createAdjustment,
                                     Endpoint("getStatus", "/status", "GET",
                                              EmptyDict, None) >>),
                      OpenAPISpec("Hotel API", <<findRoom>>) >>,
         base_url_override |-> "http://api"]

Triggers == {"billing", "orphan", "unknown"}
\* WorkflowStep(operation_id, order, depends_on)
WorkflowStep(operation_id, order, depends_on) ==
    [operation_id |-> operation_id, order |-> order, depends_on |-> depends_on]
\* WorkflowPlan(steps, logic_values); logic_values as the list of items.
WorkflowPlan(steps, logic_values) ==
    [steps |-> steps, logic_values |-> logic_values]
\* The plans a planner may return: up to MaxSteps steps, each naming a
\* registered operation or "ghost", in any order, and the logic values.
Plans ==
    LET steps_of ==
            {WorkflowStep(operation_id, order, <<>>) :
                operation_id \in {"createAdjustment", "getStatus",
                                  "findRoom", "ghost"},
                order \in 1..MaxSteps}
        logic_values_of ==
            { <<>>,
              << <<"amount", PyInt("75")>>, <<"logic.tier", PyStr("gold")>> >>,
              << <<"amount", PyInt("75")>>,
                 <<"amount.currency", PyStr("EUR")>> >> }
    IN  UNION { {WorkflowPlan(steps, logic_values) :
                    steps \in [1..n -> steps_of],
                    logic_values \in logic_values_of}
                : n \in 0..MaxSteps }

CallerFull ==
    ("db" :> Mp("customer" :> Mp("id" :> PyStr("CUST-1"))))
    @@ ("state" :> Mp("case_id" :> PyStr("CASE-1")))
    @@ ("input" :> Mp("guest" :> PyStr("Al")))

\* The orchestrator is fresh, or holds the backend and history an earlier
\* successful createAdjustment run on it left behind.
Init ==
    /\ ctx = EmptyContext /\ last = NoCall /\ nops = 0 /\ smcall = NoApply
    /\ orch = Registered
    /\ run = NoRun
    /\ \/ /\ initial_context
                \in {CallerFull,
                     "db" :> Mp("customer" :> Mp("id" :> PyStr("CUST-1")))}
          /\ backend = <<>> /\ update_history = <<>>
       \/ /\ initial_context = CallerFull
          /\ LET left(earlier) ==
                     /\ backend = earlier.data
                     /\ update_history = earlier.history
                 answer == Mp("id" :> PyInt("7"))
             IN  left(ApplyUpdates(AllUpdates, CtxCustomer,
                                   APIResponse(200, answer, TRUE, None),
                                   <<>>, <<>>))

\* execute_workflow up to the planner call: the run record after
\* RuntimeContext(initial_context).
Entered(trigger) ==
    LET rc == NewRuntimeContext(initial_context)
    IN  [NoRun EXCEPT !.trigger = trigger, !.context = rc.context,
                      !.shared = rc.shared,
                      !.initial_before = initial_context,
                      !.backend_before = backend,
                      !.history_before = update_history]

\* The except branch without errors.append(str(e)).
AbortedWithoutMessage(r, message) ==
    [r EXCEPT !.pc = "done",
              !.result = WorkflowResult(FALSE, None, r.api_responses,
                                        r.state_updates, r.context, r.errors)]

\* The except branch of execute_workflow: str(e) is appended and a failed
\* WorkflowResult without plan is returned.
Aborted(r, message) ==
    LET errors == Append(r.errors, message)
    IN  [r EXCEPT !.pc = "done", !.errors = errors,
                  !.result = WorkflowResult(FALSE, None, r.api_responses,
                                            r.state_updates, r.context, errors)]

\* A close() that leaves the client as it is.
ClosedLeavingOpen(client) == client

\* APIExecutor.close()
Closed(client) ==
    IF client.open
    THEN [client EXCEPT !.open = FALSE, !.closed = @ + 1]
    ELSE client

ExecuteWorkflowNoPlaybook(trigger) ==
    /\ run.pc = "idle"
    /\ GetPlaybook(orch.playbooks, trigger) = None
    /\ run' = Aborted(Entered(trigger), "Playbook not found: " \o trigger)
    /\ UNCHANGED <<ctxVars, smVars, orch, initial_context>>

ExecuteWorkflowNoEndpoints(trigger) ==
    /\ run.pc = "idle"
    /\ GetPlaybook(orch.playbooks, trigger) # None
    /\ GetEndpointsForModule(orch.specs, trigger) = <<>>
    /\ run' = Aborted(Entered(trigger),
                      "No API endpoints found for logic module: " \o trigger)
    /\ UNCHANGED <<ctxVars, smVars, orch, initial_context>>

ExecuteWorkflowPlannerFails(trigger, message) ==
    /\ run.pc = "idle"
    /\ GetPlaybook(orch.playbooks, trigger) # None
    /\ GetEndpointsForModule(orch.specs, trigger) # <<>>
    /\ run' = Aborted(Entered(trigger), message)
    /\ UNCHANGED <<ctxVars, smVars, orch, initial_context>>

ExecuteWorkflowPlanned(trigger, plan) ==
    /\ run.pc = "idle"
    /\ GetPlaybook(orch.playbooks, trigger) # None
    /\ GetEndpointsForModule(orch.specs, trigger) # <<>>
    /\ LET planned(r0, set) ==
               /\ run' = IF set.exc # "none"
                         THEN Aborted([r0 EXCEPT !.context = set.data],
                                      set.msg)
                         ELSE [r0 EXCEPT !.context = set.data,
                                         !.pc = "loop",
                                         !.todo = SortedPositions(plan.steps)]
               /\ initial_context' =
                     SeenByCaller(initial_context, r0.shared, set.data)
           entered(r0) ==
               planned(r0, IF plan.logic_values # <<>>
                           THEN SetLogicValues(r0.context, plan.logic_values)
                           ELSE Ret(None, r0.context))
       IN  entered([Entered(trigger) EXCEPT !.plan = plan])
    /\ UNCHANGED <<ctxVars, smVars, orch>>

\* One iteration of the loop whose step names no endpoint.
StepEndpointNotFound ==
    /\ run.pc = "loop" /\ run.todo # <<>>
    /\ LET step == run.plan.steps[Head(run.todo)]
       IN  /\ GetEndpointById(orch.specs, step.operation_id) = None
           /\ run' = [run EXCEPT
                        !.todo = Tail(@),
                        !.skipped = Append(@, Head(run.todo)),
                        !.errors = Append(@, "Endpoint not found: "
                                              \o step.operation_id)]
    /\ UNCHANGED <<ctxVars, smVars, orch, initial_context>>

\* One iteration whose endpoint has no extension: execute_with_templates
\* raises APIExecutionError, the finally clause closes the executor and the
\* outer except returns.
StepNoExtension ==
    /\ run.pc = "loop" /\ run.todo # <<>>
    /\ LET step == run.plan.steps[Head(run.todo)]
           of(endpoint) ==
               /\ endpoint # None
               /\ endpoint.contextmesh = None
               /\ run' = Aborted([run EXCEPT !.client = Closed(@)],
                                 "Endpoint " \o endpoint.operation_id
                                    \o " has no contextMesh configuration")
       IN  of(GetEndpointById(orch.specs, step.operation_id))
    /\ UNCHANGED <<ctxVars, smVars, orch, initial_context>>

\* One iteration that issues the API call; `outcome` is what the HTTP
\* layer does with the request.
StepCall(outcome) ==
    /\ run.pc = "loop" /\ run.todo # <<>>
    /\ LET pos == Head(run.todo)
           step == run.plan.steps[pos]
           \* resolve_params or execute raised: finally closes, the outer
           \* except returns
           failed(message) ==
               /\ run' = Aborted([run EXCEPT !.client = Closed(@)], message)
               /\ UNCHANGED <<backend, update_history, initial_context>>
           \* the call was made and the state updates applied
           called(params, request, response, au) ==
               /\ run' = [run EXCEPT
                            !.todo = Tail(@),
                            !.client = IF @.open THEN @
                                       ELSE [@ EXCEPT !.open = TRUE,
                                                      !.created = @ + 1],
                            !.calls = Append(@,
                                [operation_id |-> step.operation_id,
                                 pos |-> pos, order |-> step.order,
                                 context |-> run.context,
                                 params |-> params.val.m,
                                 request |-> request]),
                            !.api_responses = Append(@, response),
                            !.context = au.context,
                            !.state_updates = @ \o au.applied,
                            !.errors =
                                IF response.success THEN @
                                ELSE Append(@, "API call failed: "
                                        \o step.operation_id \o " - "
                                        \o PyStrOf(response.error).s)]
               /\ backend' = au.data
               /\ update_history' = au.history
               /\ initial_context' =
                     SeenByCaller(initial_context, run.shared, au.context)
           updates(config, c1, response) ==
               IF DOMAIN config # {}
               THEN ApplyUpdates(config, c1, response, backend, update_history)
               ELSE [applied |-> <<>>, context |-> c1,
                     data |-> backend, history |-> update_history]
           executed(endpoint, params, ex) ==
               IF ex.exc # "none" THEN failed(ex.exc)
               ELSE called(params, ex.request, ex.response,
                           updates(endpoint.contextmesh.state_updates,
                                   UpdateFromResponse(run.context,
                                                      ex.response.body),
                                   ex.response))
           with(endpoint, params) ==
               IF params.exc # "none" THEN failed(params.msg)
               ELSE executed(endpoint, params,
                             Execute(GetBaseUrl(orch), endpoint, params.val.m,
                                     outcome))
           of(endpoint) ==
               /\ endpoint # None
               /\ endpoint.contextmesh # None
               /\ with(endpoint,
                       ResolveParams(endpoint.contextmesh.template_params,
                                     run.context, FALSE))
       IN  of(GetEndpointById(orch.specs, step.operation_id))
    /\ UNCHANGED <<ctxVars, smcall, orch>>

\* The loop is over: the executor is closed and the result returned.
Finish ==
    /\ run.pc = "loop" /\ run.todo = <<>>
    /\ run' = [run EXCEPT
                 !.pc = "done",
                 !.client = Closed(@),
                 !.result = WorkflowResult(run.errors = <<>>, run.plan,
                                           run.api_responses,
                                           run.state_updates, run.context,
                                           run.errors)]
    /\ UNCHANGED <<ctxVars, smVars, orch, initial_context>>

\* execute_workflow(trigger, initial_context) with a planner that returns
\* one of the plans.
ExecuteWorkflowWithPlan ==
    /\ run.pc = "idle"
    /\ \E t \in Triggers, plan \in Plans : ExecuteWorkflowPlanned(t, plan)

Next ==
    \/ \E t \in Triggers : ExecuteWorkflowNoPlaybook(t)
    \/ \E t \in Triggers : ExecuteWorkflowNoEndpoints(t)
    \/ \E t \in Triggers : ExecuteWorkflowPlannerFails(t, "planner unavailable")
    \/ ExecuteWorkflowWithPlan
    \/ StepEndpointNotFound
    \/ StepNoExtension
    \/ \E o \in HttpOutcomes : StepCall(o)
    \/ Finish

Spec == Init /\ [][Next]_vars

\* ------------------------------------------------------------------------
\* Claims about execute_workflow
\* ------------------------------------------------------------------------
\* The registered endpoints, whatever spec they come from.
RegisteredEndpoints ==
    UNION { {orch.specs[i].endpoints[j] : j \in DOMAIN orch.specs[i].endpoints}
            : i \in DOMAIN orch.specs }
NamesEndpoint(operation_id) ==
    \E endpoint \in RegisteredEndpoints : endpoint.operation_id = operation_id
ServesModule(trigger) ==
    \E endpoint \in RegisteredEndpoints :
        /\ endpoint.contextmesh # None
        /\ endpoint.contextmesh.logic_module = trigger
Returned == run.pc = "done"
\* The number of indices of sequence q that satisfy Test.
CountOf(q, Test(_)) == Cardinality({i \in DOMAIN q : Test(q[i])})

\* C1: the API calls of a run are issued in ascending `order` of their
\* steps, and calls of steps with equal `order` in the order of their
\* positions in plan.steps.
C1_CallsInAscendingOrder ==
    \A i, j \in DOMAIN run.calls :
        i < j =>
            \/ run.calls[i].order < run.calls[j].order
            \/ /\ run.calls[i].order = run.calls[j].order
               /\ run.calls[i].pos < run.calls[j].pos

\* A plan whose second step has the smaller order: the second step was
\* called first.
C1_Witness ==
    /\ Returned
    /\ Len(run.calls) = 2
    /\ run.calls[1].pos = 2 /\ run.calls[2].pos = 1
    /\ run.calls[1].order < run.calls[2].order

\* C2: once the planner has returned a plan, every step of it is
\* processed when execute_workflow returns: a step naming a registered
\* endpoint (with or without extension) was called exactly once, any other
\* step was skipped with one error, whatever happened to the other steps.
C2_EveryStepProcessed ==
    (Returned /\ run.plan # None) =>
        \A p \in DOMAIN run.plan.steps :
            LET called(c) == c.pos = p
                passed(q) == q = p
            IN  IF NamesEndpoint(run.plan.steps[p].operation_id)
                THEN CountOf(run.calls, called) = 1
                ELSE /\ CountOf(run.skipped, passed) = 1
                     /\ CountOf(run.calls, called) = 0

\* C3: a returned WorkflowResult has success = (errors is empty); after a
\* plan walked to its end the errors are one "Endpoint not found" entry
\* per step naming no endpoint and one "API call failed" entry per
\* response with success = false, and nothing else.
C3_SuccessIffNoErrors ==
    Returned =>
        /\ run.result.success <=> (run.result.errors = <<>>)
        /\ run.result.plan # None =>
              LET notFound(e) == StartsWith(e, "Endpoint not found: ")
                  callFailed(e) == StartsWith(e, "API call failed: ")
                  unknown(step) == ~NamesEndpoint(step.operation_id)
                  failure(response) == ~response.success
              IN  /\ CountOf(run.result.errors, notFound)
                        = CountOf(run.result.plan.steps, unknown)
                  /\ CountOf(run.result.errors, callFailed)
                        = CountOf(run.result.api_responses, failure)
                  /\ \A i \in DOMAIN run.result.errors :
                        notFound(run.result.errors[i])
                        \/ callFailed(run.result.errors[i])

\* A plan walked to its end with one skipped step and one failed call.
C3_Witness ==
    /\ Returned
    /\ run.result.plan # None
    /\ Len(run.result.errors) = 2
    /\ run.skipped # <<>>
    /\ \E i \in DOMAIN run.result.api_responses :
          ~run.result.api_responses[i].success
    /\ ~run.result.success

\* execute_workflow returned on a setup error: no playbook, no endpoint of
\* the module, or no plan from the planner.
SetupFailed ==
    /\ Returned
    /\ \/ run.trigger \notin orch.playbooks
       \/ ~ServesModule(run.trigger)
       \/ run.plan = None

\* C4: a setup error aborts: no API call, no state update, backend and
\* history as before the call, success = false, errors not empty, and for
\* a missing playbook an error containing "not found".
C4_SetupErrorAborts ==
    SetupFailed =>
        /\ run.calls = <<>> /\ run.client.created = 0
        /\ run.result.api_responses = <<>>
        /\ run.result.state_updates = <<>>
        /\ backend = run.backend_before
        /\ update_history = run.history_before
        /\ run.result.success = FALSE
        /\ run.result.errors # <<>>
        /\ run.trigger \notin orch.playbooks =>
              \E i \in DOMAIN run.result.errors :
                  Contains(run.result.errors[i], "not found")

\* The missing playbook on an orchestrator whose backend holds rows of an
\* earlier run.
C4_Witness ==
    /\ SetupFailed
    /\ run.trigger = "unknown"
    /\ run.backend_before # <<>>
    /\ run.result.errors = <<"Playbook not found: unknown">>

\* The endpoint a call was made to.
EndpointOf(call) == GetEndpointById(orch.specs, call.operation_id)

\* plan.logic_values as the logic namespace holds them: each key without
\* its "logic." prefix (keys without a further dot), over the caller's
\* logic values.
LogicKey(key) == IF StartsWith(key, "logic.") THEN Slice(key, 7, Len(key)) ELSE key
ExpectedLogic(items, initial) ==
    [k \in {LogicKey(items[j][1]) : j \in DOMAIN items} \cup DOMAIN initial |->
        IF \E j \in DOMAIN items : LogicKey(items[j][1]) = k
        THEN items[CHOOSE j \in DOMAIN items :
                      /\ LogicKey(items[j][1]) = k
                      /\ \A n \in DOMAIN items :
                            LogicKey(items[n][1]) = k => n <= j][2]
        ELSE initial[k]]

\* The context the i-th call of the run has to see: the caller's initial
\* context, plan.logic_values in logic, and in state.last_response the body
\* of the call before it.
ExpectedContext(i) ==
    LET given(n) == IF n \in DOMAIN run.initial_before
                    THEN run.initial_before[n].m ELSE EmptyDict
    IN  [n \in NamespaceNames |->
            IF n = "logic"
            THEN ExpectedLogic(run.plan.logic_values, given(n))
            ELSE IF n = "state" /\ i > 1
                 THEN ("last_response" :> run.api_responses[i - 1].body)
                      @@ given(n)
                 ELSE given(n)]

\* The request carries parameter `key` with value v: in its JSON body, in
\* its query, or in the URL in place of the {key} placeholder of the path.
Carries(request, path, key, v) ==
    \/ /\ request.json # None
       /\ key \in DOMAIN request.json.m /\ request.json.m[key] = v
    \/ /\ request.params # None
       /\ key \in DOMAIN request.params.m /\ request.params.m[key] = v
    \/ /\ Contains(path, "{" \o key \o "}")
       /\ request.url = GetBaseUrl(orch)
                          \o Replace(path, "{" \o key \o "}", PyStrOf(v).s)

DeclaredIn(endpoint, key) ==
    LET properties == DictGet(endpoint.request_schema, "properties",
                              Mp(EmptyDict)).m
    IN  DictGet(DictGet(properties, key, Mp(EmptyDict)).m, "in",
                PyStr("body")).s

ExpectedUpdates(i) ==
    LET cfg == EndpointOf(run.calls[i]).contextmesh.state_updates
        ok == run.api_responses[i].success
        chosen == DictGet(cfg, IF ok THEN "onSuccess" ELSE "onFailure", <<>>)
        always == DictGet(cfg, "always", <<>>)
    IN  UpdatesOf(chosen, ExpectedContext(i + 1))
        \o UpdatesOf(always, ExpectedContext(i + 1))

RECURSIVE ExpectedUpdatesUpTo(_)
ExpectedUpdatesUpTo(i) ==
    IF i = 0 THEN <<>> ELSE ExpectedUpdatesUpTo(i - 1) \o ExpectedUpdates(i)

\* C13: the state updates of a run are, call by call, the selected entries
\* of the call's endpoint, each once; each write among them added exactly
\* one row to its table.  On a fresh orchestrator, one successful
\* createAdjustment step with state.case_id = 'CASE-1' leaves exactly one
\* row in log, with case = 'CASE-1', and one write in state_updates.
C13_EachEntryAppliedOnce ==
    LET written(table) ==
            LET hit(u) == u.operation = "write" /\ u.table = table
            IN  CountOf(run.state_updates, hit)
        logWrite(u) == u.operation = "write" /\ u.table = "log"
    IN  /\ run.state_updates = ExpectedUpdatesUpTo(Len(run.calls))
        /\ run.pc # "idle" =>
              update_history = run.history_before \o run.state_updates
        /\ run.pc # "idle" =>
              \A table \in {"log", "failures", "audit"} :
                  Len(RowsOf(backend, table))
                      = Len(RowsOf(run.backend_before, table)) + written(table)
        /\ ( /\ Returned
             /\ run.backend_before = <<>>
             /\ Len(run.calls) = 1
             /\ run.calls[1].operation_id = "createAdjustment"
             /\ run.api_responses[1].success
             /\ run.initial_before = CallerFull )
           => /\ Len(RowsOf(backend, "log")) = 1
              /\ backend["log"][1]["case"] = PyStr("CASE-1")
              /\ CountOf(run.result.state_updates, logWrite) = 1
              /\ \E n \in DOMAIN run.result.state_updates :
                    /\ logWrite(run.result.state_updates[n])
                    /\ run.result.state_updates[n].values["case"]
                          = PyStr("CASE-1")

\* C13 witness: the run of the example has returned.
C13_Witness ==
    /\ Returned
    /\ run.backend_before = <<>>
    /\ run.result.plan # None
    /\ Len(run.result.plan.steps) = 1
    /\ Len(run.calls) = 1
    /\ run.calls[1].operation_id = "createAdjustment"
    /\ run.api_responses[1].success
    /\ run.initial_before = CallerFull
    /\ Len(backend["log"]) = 1
    /\ backend["log"][1]["case"] = PyStr("CASE-1")

\* C14: once a call was made, state.last_response is exactly the body of
\* the latest response, whatever steps were skipped since and whatever an
\* earlier body held; before the first call state is as the caller gave
\* it; the state updates of a call see its own body under response.*; the
\* returned final_context holds the same state.
C14_LastResponseOverwritten ==
    LET n == Len(run.api_responses)
        given == IF "state" \in DOMAIN run.initial_before
                 THEN run.initial_before["state"].m ELSE EmptyDict
        logWrite(u) == u.operation = "write" /\ u.table = "log"
    IN  /\ n > 0 =>
              /\ "last_response" \in DOMAIN run.context["state"]
              /\ run.context["state"]["last_response"]
                    = run.api_responses[n].body
              /\ run.context["state"]
                    = ("last_response" :> run.api_responses[n].body) @@ given
        /\ (n = 0 /\ run.pc # "idle") => run.context["state"] = given
        /\ \A k \in DOMAIN run.state_updates :
              logWrite(run.state_updates[k]) =>
                  \E i \in DOMAIN run.api_responses :
                      /\ run.api_responses[i].success
                      /\ run.state_updates[k].values["adjustment"]
                            = run.api_responses[i].body.m["id"]
        /\ Returned =>
              run.result.final_context["state"] = run.context["state"]

\* C14 witness: a call answered {id: 7}, then a call answered 500
\* {error: bad}: the returned state holds the second body only.
C14_Witness ==
    /\ Returned
    /\ Len(run.api_responses) = 2
    /\ run.api_responses[1].body = Mp("id" :> PyInt("7"))
    /\ run.api_responses[2].body = Mp("error" :> PyStr("bad"))
    /\ run.result.final_context["state"]["last_response"]
          = Mp("error" :> PyStr("bad"))

\* C6: the caller's initial_context holds the same data when
\* execute_workflow returns as when it was called.
C6_CallerContextUnchanged ==
    Returned => initial_context = run.initial_before

\* C22: one execute_workflow call creates at most one HTTP client, on its
\* first request and not before, every later call of the run uses that
\* client, and when the call has returned, by completing the loop or by
\* an exception in a step, the client it created is closed and none is
\* open; a run that made no request created and closed nothing.
C22_ClientScopedToRun ==
    /\ run.client.created <= 1
    /\ run.client.created = (IF run.calls # <<>> THEN 1 ELSE 0)
    /\ run.pc = "loop" => (run.client.open <=> run.calls # <<>>)
    /\ Returned =>
          /\ ~run.client.open
          /\ run.client.closed = run.client.created

\* C22 witness: a run that made a call and was then ended by an exception
\* in its next step returned with its one client closed.
C22_Witness ==
    /\ Returned
    /\ run.result.plan = None
    /\ Len(run.calls) = 1
    /\ run.client = [open |-> FALSE, created |-> 1, closed |-> 1]

\* ------------------------------------------------------------------------
\* Claims about RuntimeContext.merge
\* ------------------------------------------------------------------------
\* The paths the merge claim ranges over: a namespace and one to three
\* keys below it, as sequences of segments.
MergePaths ==
    LET keys == {"a", "b", "c"}
    IN  {<<n>> \o parts :
            n \in NamespaceNames,
            parts \in UNION {[1..k -> keys] : k \in 1..3}}

\* The dotted path of a sequence of segments.
RECURSIVE Dotted(_)
Dotted(parts) ==
    IF Len(parts) = 1 THEN parts[1]
    ELSE parts[1] \o "." \o Dotted(Tail(parts))

\* TRUE when `data` holds a value that is not a dict at `parts`.
IsLeafOf(data, parts) ==
    LET at(v) == v # Absent /\ ~IsDict(v)
    IN  at(StoredBelow(Mp(data), parts))

\* C24: after ctx.merge(data), which raises nothing, every leaf path of
\* data below a namespace resolves to data's value; a path that existed
\* before, that data does not hold and that is not below a leaf path of
\* data, resolves to the value it had; a key of data that is not a
\* namespace adds nothing to the context.
C24_MergeIsRecursive ==
    last.op = "merge" =>
        /\ last.exc = "none"
        /\ DOMAIN ctx = NamespaceNames
        /\ \A parts \in MergePaths :
              LET data == last.arg.m
                  was == StoredBelow(Mp(last.before[parts[1]]), Tail(parts))
                  overwritten ==
                      \E k \in 2..(Len(parts) - 1) :
                          IsLeafOf(data, SubSeq(parts, 1, k))
              IN  /\ IsLeafOf(data, parts) =>
                        /\ RtGet(ctx, Dotted(parts)).exc = "none"
                        /\ RtGet(ctx, Dotted(parts)).val
                              = StoredBelow(Mp(data), parts)
                  /\ (/\ was # Absent
                      /\ StoredBelow(Mp(data), parts) = Absent
                      /\ ~overwritten) =>
                        /\ RtGet(ctx, Dotted(parts)).exc = "none"
                        /\ RtGet(ctx, Dotted(parts)).val = was

\* C24 witness: state.a held {a: 2} and merge({state: {a: {c: true}},
\* logic: 4}) left state.a = {a: 2, c: true}.
C24_Witness ==
    /\ last.op = "merge"
    /\ "logic" \in DOMAIN last.arg.m
    /\ last.before["state"] = ("a" :> Mp("a" :> PyInt("2")))
    /\ ctx["state"]
          = ("a" :> Mp(("a" :> PyInt("2")) @@ ("c" :> PyBool(TRUE))))

\* ------------------------------------------------------------------------
\* Claims about the endpoints execute_workflow calls
\* ------------------------------------------------------------------------
\* The endpoints registered under operation_id, in any spec.
RegisteredAs(operation_id) ==
    {ep \in UNION {{spec.endpoints[j] : j \in DOMAIN spec.endpoints} :
                      spec \in {orch.specs[i] : i \in DOMAIN orch.specs}} :
        ep.operation_id = operation_id}

\* C27 (as claimed): every call of execute_workflow(trigger, ...) targets
\* an endpoint whose extension names the trigger as its logic module.
C27_CallsOnlyTriggerEndpoints ==
    \A n \in DOMAIN run.calls :
        \E ep \in RegisteredAs(run.calls[n].operation_id) :
            /\ ep.contextmesh # None
            /\ ep.contextmesh.logic_module = run.trigger

\* C27 (amended): a run gets to its steps only when some endpoint serves
\* the trigger; every call targets a registered endpoint of the step's
\* operation_id that has an extension, of whatever logic module, with that
\* endpoint's method; a step is skipped only when no registered endpoint
\* has its operation_id; no call is made for an endpoint without an
\* extension.
C27_CallsResolvedByOperationId ==
    /\ run.pc = "loop" => GetEndpointsForModule(orch.specs, run.trigger) # <<>>
    /\ \A n \in DOMAIN run.calls :
          /\ run.calls[n].operation_id
                = run.plan.steps[run.calls[n].pos].operation_id
          /\ \E ep \in RegisteredAs(run.calls[n].operation_id) :
                /\ ep.contextmesh # None
                /\ run.calls[n].request # NoRequest
                      => run.calls[n].request.method = ep.method
    /\ \A k \in DOMAIN run.skipped :
          RegisteredAs(run.plan.steps[run.skipped[k]].operation_id) = {}

\* C27 witness: a run triggered by "billing" whose plan names findRoom
\* called that endpoint of the hotel module.
C27_Witness ==
    /\ run.trigger = "billing"
    /\ \E n \in DOMAIN run.calls :
          /\ run.calls[n].operation_id = "findRoom"
          /\ run.calls[n].request.method = "GET"
          /\ \A ep \in RegisteredAs("findRoom") :
                ep.contextmesh.logic_module = "hotel"

\* ------------------------------------------------------------------------
\* Registry: loading spec files and registering specs on one orchestrator
\* ------------------------------------------------------------------------
MaxRegOps == 1

\* OpenAPIParser.parse_spec(spec_dict) for a document that is a mapping:
\* the title with its default, and one endpoint per operation of `paths`,
\* its id the operationId or, without one, method_path with "/" turned
\* into "_" and the underscores at both ends stripped. An operation is
\* [path, method, operation], method being the lower-case key of the path
\* item and operation the operation object.
ParseSpec(spec_dict) ==
    LET RECURSIVE strip(_)
        strip(str) ==
            IF Len(str) > 0 /\ CharAt(str, 1) = "_" THEN strip(Tail(str))
            ELSE IF Len(str) > 0 /\ CharAt(str, Len(str)) = "_"
            THEN strip(Slice(str, 1, Len(str) - 1))
            ELSE str
        info == DictGet(spec_dict, "info", Mp(EmptyDict)).m
        extension(data) ==
            Extension(DictGet(data, "logicModule", PyStr("")).s,
                      DictGet(data, "templateParams", Mp(EmptyDict)).m,
                      DictGet(data, "stateUpdates", Mp(EmptyDict)).m)
        parsed(op) ==
            Endpoint(IF DictGet(op.operation, "operationId", PyStr("")).s # ""
                     THEN op.operation["operationId"].s
                     ELSE op.method \o "_"
                          \o strip(Replace(op.path, "/", "_")),
                     op.path, Upper(op.method), EmptyDict,
                     IF "x-contextMesh" \in DOMAIN op.operation
                     THEN extension(op.operation["x-contextMesh"].m)
                     ELSE None)
        paths == spec_dict["paths"]
    IN  OpenAPISpec(DictGet(info, "title", PyStr("Unknown API")).s,
                    [n \in DOMAIN paths |-> parsed(paths[n])])

\* OpenAPIParser.load_spec(file_path) on an existing file: a YAML error is
\* wrapped in OpenAPIParseError inside the try block; parse_spec runs
\* after it, and its spec_dict.get raises AttributeError on the None of an
\* empty document and on a document that is a list.
LoadSpec(file) ==
    IF file.kind = "invalid"
    THEN Raise("OpenAPIParseError", "Failed to parse YAML", <<>>)
    ELSE IF file.kind # "dict"
    THEN Raise("AttributeError", "object has no attribute 'get'", <<>>)
    ELSE Ret(ParseSpec(file.content), <<>>)

\* load_specs_from_directory(directory): [exc, val]; directory.files is
\* what the two globs yield, in their order. Only OpenAPIParseError is
\* caught per file.
LoadSpecsFromDirectory(directory) ==
    LET RECURSIVE over(_)
        over(files) ==
            IF files = <<>> THEN [exc |-> "none", val |-> <<>>]
            ELSE LET rest(loaded, later) ==
                         IF loaded.exc = "OpenAPIParseError" THEN later
                         ELSE IF loaded.exc # "none"
                         THEN [exc |-> loaded.exc, val |-> <<>>]
                         ELSE IF later.exc # "none" THEN later
                         ELSE [exc |-> "none",
                               val |-> <<loaded.val>> \o later.val]
                 IN  rest(LoadSpec(Head(files)), over(Tail(files)))
    IN  IF ~directory.is_dir
        THEN [exc |-> "OpenAPIParseError", val |-> <<>>]
        ELSE over(directory.files)

\* ContextMeshOrchestrator.add_spec(spec): _specs[spec.title] = spec; a
\* title that is already a key keeps its place and gets the new spec.
AddSpec(specs, spec) ==
    IF \E i \in DOMAIN specs : specs[i].title = spec.title
    THEN [i \in DOMAIN specs |->
             IF specs[i].title = spec.title THEN spec ELSE specs[i]]
    ELSE Append(specs, spec)

\* ContextMeshOrchestrator(config) with both directories of the config
\* being `directory`: _load_resources swallows every exception of
\* load_spec and stores a loaded spec under its title; nothing is loaded
\* from a path that is no directory.
LoadResources(directory) ==
    LET RECURSIVE over(_, _)
        over(specs, files) ==
            IF files = <<>> THEN specs
            ELSE LET stored(loaded) ==
                         IF loaded.exc = "none"
                         THEN AddSpec(specs, loaded.val)
                         ELSE specs
                 IN  over(stored(LoadSpec(Head(files))), Tail(files))
    IN  IF ~directory.is_dir THEN NoOrchestrator
        ELSE [playbooks |-> directory.playbooks,
              specs |-> over(<<>>, directory.files),
              base_url_override |-> ""]

RECURSIVE ListEndpoints(_)
\* ContextMeshOrchestrator.list_endpoints()
ListEndpoints(specs) ==
    IF specs = <<>> THEN <<>>
    ELSE [n \in DOMAIN Head(specs).endpoints |->
             Head(specs).endpoints[n].operation_id]
         \o ListEndpoints(Tail(specs))

\* The directories an orchestrator is configured with: whether the path
\* is a directory, the spec files the globs yield and the module names of
\* the playbook files that load. The spec files: two titled documents,
\* the first with an operation without operationId, the second with an
\* operation named as that one's synthesized id; two documents without
\* info; a file that is not YAML; an empty file.
Directories ==
    LET operation(id, module) ==
            (IF id = "" THEN EmptyDict ELSE "operationId" :> PyStr(id))
            @@ (IF module = "" THEN EmptyDict
                ELSE "x-contextMesh" :> Mp("logicModule" :> PyStr(module)))
        op(path, method, id, module) ==
            [path |-> path, method |-> method,
             operation |-> operation(id, module)]
        doc(info, paths) ==
            [kind |-> "dict", content |-> info @@ ("paths" :> paths)]
        titled(title) == "info" :> Mp("title" :> PyStr(title))
        files ==
            { doc(titled("Billing API"),
                  << op("/adjustments", "post", "createAdjustment", "billing"),
                     op("/status/", "get", "", "") >>),
              doc(titled("Hotel API"),
                  << op("/rooms", "get", "findRoom", "hotel"),
                     op("/health", "get", "get_status", "") >>),
              doc(EmptyDict, << op("/refunds", "post", "refund", "billing") >>),
              doc(EmptyDict, << op("/rooms", "get", "listRooms", "hotel") >>),
              [kind |-> "invalid", content |-> EmptyDict],
              [kind |-> "empty", content |-> EmptyDict] }
        listings ==
            {<<>>} \cup {<<f>> : f \in files}
            \cup {q \in {<<f, g>> : f \in files, g \in files} : q[1] # q[2]}
    IN  {[is_dir |-> FALSE, files |-> <<>>, playbooks |-> {}]}
        \cup [is_dir : {TRUE}, files : listings,
              playbooks : {{}, {"billing", "orphan"}}]

\* ContextMeshOrchestrator(config) has returned.
InitReg ==
    /\ ctx = EmptyContext /\ nops = 0 /\ SmIdle
    /\ initial_context = <<>> /\ run = NoRun
    /\ \E directory \in Directories :
          /\ orch = LoadResources(directory)
          /\ last = Call("construct", "", directory, Ret(None, <<>>), <<>>)

\* load_specs_from_directory(directory)
RegLoadSpecsFromDirectory ==
    /\ nops < MaxRegOps
    /\ \E directory \in Directories :
          LET done(r) ==
                  last' = Call("load_specs_from_directory", "", directory,
                               [exc |-> r.exc, msg |-> "", val |-> r.val],
                               orch.specs)
          IN  done(LoadSpecsFromDirectory(directory))
    /\ nops' = nops + 1
    /\ UNCHANGED <<ctx, smVars, wfVars>>

\* orchestrator.add_spec(spec), spec being what parse_spec makes of one
\* of the documents.
RegAddSpec ==
    /\ nops < MaxRegOps
    /\ \E directory \in Directories :
          /\ Len(directory.files) = 1
          /\ directory.playbooks = {}
          /\ directory.files[1].kind = "dict"
          /\ LET added(spec) ==
                     /\ orch' = [orch EXCEPT !.specs = AddSpec(@, spec)]
                     /\ last' = Call("add_spec", "", spec, Ret(None, <<>>),
                                     orch.specs)
             IN  added(ParseSpec(directory.files[1].content))
    /\ nops' = nops + 1
    /\ UNCHANGED <<ctx, smVars, initial_context, run>>

\* orchestrator.plan_only(trigger, {}), the planner returning a plan.
RegPlanOnly(trigger) ==
    /\ nops < MaxRegOps
    /\ last' = Call("plan_only", "", PyStr(trigger),
                    IF GetPlaybook(orch.playbooks, trigger) = None
                    THEN Raise("WorkflowExecutionError",
                               "Playbook not found: " \o trigger, <<>>)
                    ELSE IF GetEndpointsForModule(orch.specs, trigger) = <<>>
                    THEN Raise("WorkflowExecutionError",
                               "No API endpoints found for logic module: "
                                  \o trigger, <<>>)
                    ELSE Ret(WorkflowPlan(<<>>, <<>>), <<>>),
                    orch.specs)
    /\ nops' = nops + 1
    /\ UNCHANGED <<ctx, smVars, wfVars>>

\* orchestrator.compute_logic_values(trigger, {}), the planner returning
\* {amount: 75}.
RegComputeLogicValues(trigger) ==
    /\ nops < MaxRegOps
    /\ last' = Call("compute_logic_values", "", PyStr(trigger),
                    IF GetPlaybook(orch.playbooks, trigger) = None
                    THEN Raise("WorkflowExecutionError",
                               "Playbook not found: " \o trigger, <<>>)
                    ELSE Ret(Mp("amount" :> PyInt("75")), <<>>),
                    orch.specs)
    /\ nops' = nops + 1
    /\ UNCHANGED <<ctx, smVars, wfVars>>

NextReg ==
    \/ RegLoadSpecsFromDirectory
    \/ RegAddSpec
    \/ \E trigger \in Triggers : RegPlanOnly(trigger)
    \/ \E trigger \in Triggers : RegComputeLogicValues(trigger)

SpecReg == InitReg /\ [][NextReg]_vars

\* C23: plan_only and compute_logic_values each raise a workflow error
\* when no playbook is registered under the trigger and when no registered
\* endpoint has the trigger as its logic module, and neither makes an API
\* call nor changes the backend, the history or what is registered.
C23_DryRunsDoTheSameSetup ==
    last.op \in {"plan_only", "compute_logic_values"} =>
        LET trigger == last.arg.s
        IN  /\ trigger \notin orch.playbooks
                  => last.exc = "WorkflowExecutionError"
            /\ ~ServesModule(trigger) => last.exc = "WorkflowExecutionError"
            /\ orch.specs = last.before
            /\ run = NoRun /\ backend = <<>> /\ update_history = <<>>

\* TRUE when q holds no value twice.
NoDuplicates(q) == \A i, j \in DOMAIN q : q[i] = q[j] => i = j

\* C26: loading a directory never raises because a file fails to parse:
\* load_specs_from_directory on a directory returns the specs of the files
\* that parse, in their order, and a constructed orchestrator has
\* registered exactly specs of files that parse; from a missing or an
\* empty directory nothing is registered.
C26_BulkLoadingIsBestEffort ==
    LET directory == last.arg
        parsing == SelectSeq(directory.files, LAMBDA f : f.kind = "dict")
        specs == [n \in DOMAIN parsing |-> ParseSpec(parsing[n].content)]
    IN  /\ (last.op = "load_specs_from_directory" /\ directory.is_dir) =>
              /\ last.exc = "none"
              /\ last.val = specs
        /\ last.op = "construct" =>
              /\ last.exc = "none"
              /\ \A i \in DOMAIN orch.specs :
                    \E n \in DOMAIN specs : orch.specs[i] = specs[n]
              /\ \A n \in DOMAIN specs :
                    \E i \in DOMAIN orch.specs :
                        orch.specs[i].title = specs[n].title
              /\ (~directory.is_dir \/ directory.files = <<>>) =>
                    (orch.specs = <<>> /\ ListEndpoints(orch.specs) = <<>>)
              /\ ~directory.is_dir => orch.playbooks = {}

\* C29: list_endpoints() of an orchestrator holds no operation_id twice,
\* and an operation without operationId is listed under the id made of
\* its method and path.
C29_OperationIdsUnique ==
    /\ NoDuplicates(ListEndpoints(orch.specs))
    /\ \A ep \in RegisteredEndpoints : ep.operation_id # ""

\* C30: after add_spec(s) every operation_id of s is listed, and every
\* operation_id that was listed before is still listed and names an
\* endpoint; after the construction, every operation_id of a file that
\* parses is listed.
C30_RegistrationOnlyAdds ==
    LET listed(specs, id) ==
            \E n \in DOMAIN ListEndpoints(specs) : ListEndpoints(specs)[n] = id
        ids(spec) == {spec.endpoints[j].operation_id : j \in DOMAIN spec.endpoints}
    IN  /\ last.op = "add_spec" =>
              /\ \A id \in ids(last.arg) : listed(orch.specs, id)
              /\ \A n \in DOMAIN ListEndpoints(last.before) :
                    /\ listed(orch.specs, ListEndpoints(last.before)[n])
                    /\ GetEndpointById(orch.specs,
                                       ListEndpoints(last.before)[n]) # None
        /\ last.op = "construct" =>
              \A n \in DOMAIN last.arg.files :
                  last.arg.files[n].kind = "dict" =>
                      \A id \in ids(ParseSpec(last.arg.files[n].content)) :
                          listed(orch.specs, id)

\* ------------------------------------------------------------------------
\* Two runs applying state updates at the same time
\* ------------------------------------------------------------------------
MaxRaceOps == 1

\* The state updates a run applies: a write of a category B row, a write
\* of a category A row, a delete of the category A rows.
RaceUpdates ==
    { StateUpdate("write", "items",
                  ("id" :> PyStr("3")) @@ ("category" :> PyStr("B")), None),
      StateUpdate("write", "items",
                  ("id" :> PyStr("1")) @@ ("category" :> PyStr("A")), None),
      StateUpdate("delete", "items", EmptyDict,
                  Mp("category" :> PyStr("A"))) }

\* A state manager that every orchestrator shares.
StoreOfProcess(r) == 1

\* The StateManager(InMemoryStateBackend()) run r works on: the one of its
\* orchestrator. orch.instances is 1 when both runs are on one
\* orchestrator and 2 when each run has its own.
StoreOf(r) == IF orch.instances = 1 THEN 1 ELSE r

\* One or two orchestrators, their backends empty or holding a category A
\* row, and two runs that have applied nothing yet.
InitRace ==
    /\ ctx = EmptyContext /\ last = NoCall /\ nops = 0 /\ smcall = NoApply
    /\ initial_context = <<>>
    /\ orch \in [instances : {1, 2}]
    /\ \E data \in {<<>>, "items" :> << ("id" :> PyStr("0"))
                                       @@ ("category" :> PyStr("A")) >>} :
          backend = [s \in 1..2 |-> data]
    /\ update_history = [s \in 1..2 |-> <<>>]
    /\ run = [r \in 1..2 |->
                 [pc |-> "idle", update |-> None, rows |-> <<>>, ops |-> 0]]

\* Run r enters _execute_update(update).
RaceExecuteUpdate(r, update) ==
    /\ run[r].pc = "idle"
    /\ run[r].ops < MaxRaceOps
    /\ run' = [run EXCEPT ![r].pc = update.operation, ![r].update = update]
    /\ UNCHANGED <<ctxVars, smVars, orch, initial_context>>

\* write, first statement: the table's list is created when missing.
RaceWriteCreate(r) ==
    /\ run[r].pc = "write"
    /\ LET table == run[r].update.table
           data == backend[StoreOf(r)]
       IN  backend' = [backend EXCEPT ![StoreOf(r)] =
                          IF table \in DOMAIN data THEN data
                          ELSE (table :> <<>>) @@ data]
    /\ run' = [run EXCEPT ![r].pc = "append"]
    /\ UNCHANGED <<ctxVars, update_history, smcall, orch, initial_context>>

\* write, second statement: the row is appended to the table's list.
RaceWriteAppend(r) ==
    /\ run[r].pc = "append"
    /\ backend' = [backend EXCEPT ![StoreOf(r)] =
                      BackendWrite(@, run[r].update).data]
    /\ run' = [run EXCEPT ![r].pc = "log"]
    /\ UNCHANGED <<ctxVars, update_history, smcall, orch, initial_context>>

\* delete up to the end of the list comprehension: the rows to keep are
\* collected from the table as it is now.
RaceDeleteFilter(r) ==
    /\ run[r].pc = "delete"
    /\ LET table == run[r].update.table
           data == backend[StoreOf(r)]
       IN  run' = IF table \notin DOMAIN data
                  THEN [run EXCEPT ![r].pc = "log"]
                  ELSE [run EXCEPT
                          ![r].pc = "store",
                          ![r].rows =
                              ExecuteUpdate(data, run[r].update).data[table]]
    /\ UNCHANGED <<ctxVars, smVars, orch, initial_context>>

\* delete, the assignment: the collected rows replace the table's list.
RaceDeleteStore(r) ==
    /\ run[r].pc = "store"
    /\ backend' = [backend EXCEPT ![StoreOf(r)] =
                      (run[r].update.table :> run[r].rows) @@ @]
    /\ run' = [run EXCEPT ![r].pc = "log", ![r].rows = <<>>]
    /\ UNCHANGED <<ctxVars, update_history, smcall, orch, initial_context>>

\* apply_updates appends the executed update to the history.
RaceLog(r) ==
    /\ run[r].pc = "log"
    /\ update_history' = [update_history EXCEPT ![StoreOf(r)] =
                             Append(@, run[r].update)]
    /\ run' = [run EXCEPT ![r].pc = "idle", ![r].ops = @ + 1]
    /\ UNCHANGED <<ctxVars, backend, smcall, orch, initial_context>>

NextRace ==
    \E r \in 1..2 :
        \/ \E update \in RaceUpdates : RaceExecuteUpdate(r, update)
        \/ RaceWriteCreate(r)
        \/ RaceWriteAppend(r)
        \/ RaceDeleteFilter(r)
        \/ RaceDeleteStore(r)
        \/ RaceLog(r)

SpecRace == InitRace /\ [][NextRace]_vars

\* The number of category B rows in the items table of store s, and the
\* number of writes of such a row in the history of store s.
RowsB(s) ==
    LET rows == DictGet(backend[s], "items", <<>>)
    IN  Cardinality({n \in DOMAIN rows : rows[n]["category"] = PyStr("B")})
WritesB(s) ==
    Cardinality({n \in DOMAIN update_history[s] :
                    /\ update_history[s][n].operation = "write"
                    /\ update_history[s][n].values["category"] = PyStr("B")})

\* C25: with one backend per run, every row whose write is in the history
\* and which no delete condition matches is in its table, however the two
\* runs interleave.
C25_NoRowLostWithOwnBackend ==
    orch.instances = 2 => \A s \in 1..2 : RowsB(s) >= WritesB(s)

\* C25 witness: two runs on one orchestrator, one writing a category B
\* row and one deleting the category A rows, have both finished and the
\* written row is not in the table.
C25_Witness ==
    /\ orch.instances = 1
    /\ \A r \in 1..2 : run[r].pc = "idle" /\ run[r].ops = 1
    /\ \E r \in 1..2 : run[r].update.operation = "delete"
    /\ WritesB(1) = 1
    /\ RowsB(1) = 0

\* ------------------------------------------------------------------------
\* The same workflow run twice, with and without depends_on
\* ------------------------------------------------------------------------
\* The steps with their depends_on lists emptied.
WithoutDependsOn(steps) ==
    [n \in DOMAIN steps |-> [steps[n] EXCEPT !.depends_on = <<>>]]

\* execute_workflow("billing", initial_context) with a planner that
\* returns a plan of two steps: the first time one without depends_on
\* entries, the second time the same steps with depends_on entries.
DepExecuteWorkflow ==
    /\ run.pc = "idle"
    /\ LET steps_of ==
               {WorkflowStep(operation_id, order, depends_on) :
                   operation_id \in {"createAdjustment", "getStatus", "ghost"},
                   order \in 1..2,
                   depends_on \in {<<>>, <<"ghost">>, <<"createAdjustment">>}}
           plans ==
               {WorkflowPlan(steps, << <<"amount", PyInt("75")>> >>) :
                   steps \in [1..2 -> steps_of]}
       IN  \E plan \in plans :
              /\ IF last.op = "none"
                 THEN plan.steps = WithoutDependsOn(plan.steps)
                 ELSE /\ last.run.plan.steps = WithoutDependsOn(plan.steps)
                      /\ plan.steps # last.run.plan.steps
              /\ ExecuteWorkflowPlanned("billing", plan)

\* The first call has returned: what it did is kept in `last`, and the
\* caller's context, the backend and the history are as they were before
\* it, for the second call.
DepRestart ==
    /\ Returned
    /\ last.op = "none"
    /\ last' = [op |-> "first", run |-> run, backend |-> backend,
                update_history |-> update_history]
    /\ run' = NoRun
    /\ backend' = run.backend_before
    /\ update_history' = run.history_before
    /\ initial_context' = run.initial_before
    /\ UNCHANGED <<ctx, nops, smcall, orch>>

\* The steps of execute_workflow; in the second call the HTTP layer
\* answers the n-th request as it answered the n-th request of the first.
NextDep ==
    \/ DepExecuteWorkflow
    \/ StepEndpointNotFound
    \/ StepNoExtension
    \/ \E o \in HttpOutcomes :
          /\ StepCall(o)
          /\ LET n == Len(run'.api_responses)
             IN  (/\ last.op = "first"
                  /\ n > Len(run.api_responses)
                  /\ n <= Len(last.run.api_responses))
                     => run'.api_responses[n] = last.run.api_responses[n]
    \/ Finish
    \/ DepRestart

SpecDep == Init /\ [][NextDep]_vars

====
